---- MODULE Spec2Model ----
(***************************************************************************)
(* Cold-call simulation backend: the turn-decision engine (signal merge,   *)
(* scoring, decision cascade, stage machine), the turn use case            *)
(* process_input with its two provider suspension points, end_call, the    *)
(* in-memory session store and the silence watchdog.                       *)
(*                                                                         *)
(* Conventions.  Python's None is the empty tuple and a present value v is *)
(* the one-element tuple <<v>>.  Scores are floats that only ever take     *)
(* multiples of 0.5; they are held in half points (4.0 is 8).  Confidence  *)
(* is held in hundredths (0.35 is 35).                                     *)
(***************************************************************************)
EXTENDS Integers, Sequences, FiniteSets, TLC

None == <<>>
Some(v) == <<v>>
Val(x) == x[1]
Max(a, b) == IF a >= b THEN a ELSE b
Min(a, b) == IF a <= b THEN a ELSE b
Range(s) == {s[i] : i \in 1..Len(s)}
\* Python truthiness of an optional string: neither None nor "".
Truthy(x) == x # None /\ Val(x) # ""

(* ------------------------------------------------------------------ *)
(* domain/state.py                                                     *)
(* ------------------------------------------------------------------ *)

QUALIFICATION_SLOTS == <<"pain", "company_size", "authority", "budget", "timeline">>

SLOT_PRIORITY == <<"pain", "company_size", "authority", "budget", "timeline">>

Slots == Range(QUALIFICATION_SLOTS)

\* ExtractedSignals() with its dataclass defaults.
DefaultSignals ==
  [intent |-> "answer", company_size |-> None, pain |-> None, budget |-> None,
   authority |-> None, timeline |-> None, objection_type |-> None,
   confidence |-> 50]

\* The value an ExtractedSignals carries for a slot.
SignalSlot(signals, slot) ==
  CASE slot = "pain" -> signals.pain
    [] slot = "company_size" -> signals.company_size
    [] slot = "authority" -> signals.authority
    [] slot = "budget" -> signals.budget
    [] slot = "timeline" -> signals.timeline

(* An utterance is held as the outcome of each regular expression of the   *)
(* rule-based extractor on its lower-cased text:                           *)
(*   end        some _END_PATTERNS entry matches                           *)
(*   objection  category of the first _OBJECTION_PATTERNS entry matching   *)
(*   size       the number captured next to a headcount noun               *)
(*   pain_kw    severities of the pain keywords contained in the text      *)
(*   budget_have / budget_no / budget_defer   the three budget patterns    *)
(*   auth_neg / auth_pos / auth_title         the three authority patterns *)
(*   timeline   the token matched by the timeline vocabulary               *)
(*   greeting   the greeting pattern matches                               *)
(*   words      len(text.split())                                          *)
NoMatch ==
  [end |-> FALSE, objection |-> None, size |-> None, pain_kw |-> {},
   budget_have |-> FALSE, budget_no |-> FALSE, budget_defer |-> FALSE,
   auth_neg |-> FALSE, auth_pos |-> FALSE, auth_title |-> FALSE,
   timeline |-> None, greeting |-> FALSE, words |-> 5]

SetMax(S) == CHOOSE m \in S : \A x \in S : x <= m

\* extract_signals_rule_based without its final test for short fillers.
extract_without_filler_test(text) ==
  IF text.end
  THEN [DefaultSignals EXCEPT !.intent = "end", !.confidence = 80]
  ELSE
    LET isObj == text.objection # None
        c0 == IF isObj THEN 70 ELSE 50
        c1 == IF text.size # None THEN Max(c0, 70) ELSE c0
        pain == IF text.pain_kw # {} THEN Some(SetMax(text.pain_kw)) ELSE None
        budget == IF text.budget_have THEN Some(TRUE)
                  ELSE IF text.budget_no THEN Some(FALSE)
                  ELSE IF text.budget_defer THEN Some(FALSE)
                  ELSE None
        deferred == ~text.budget_have /\ ~text.budget_no /\ text.budget_defer
        authority == IF text.auth_neg THEN Some(FALSE)
                     ELSE IF text.auth_pos THEN Some(TRUE)
                     ELSE IF text.auth_title THEN Some(TRUE)
                     ELSE None
        c2 == IF ~text.auth_neg /\ text.auth_pos THEN Max(c1, 70) ELSE c1
        timeline == IF text.timeline # None THEN text.timeline
                    ELSE IF deferred THEN Some("uncertain")
                    ELSE None
        has_slots == \/ text.size # None
                     \/ pain # None
                     \/ budget # None
                     \/ authority # None
                     \/ timeline # None
        c3 == IF has_slots THEN Max(c2, 60) ELSE c2
        plain == ~isObj /\ ~has_slots
    IN [intent |-> IF isObj THEN "objection" ELSE "answer",
        company_size |-> text.size, pain |-> pain,
        budget |-> budget, authority |-> authority, timeline |-> timeline,
        objection_type |-> text.objection,
        confidence |-> IF plain /\ text.greeting THEN 60 ELSE c3]

extract_signals_rule_based(text) ==
  IF text.end
  THEN [DefaultSignals EXCEPT !.intent = "end", !.confidence = 80]
  ELSE
    LET isObj == text.objection # None
        c0 == IF isObj THEN 70 ELSE 50
        c1 == IF text.size # None THEN Max(c0, 70) ELSE c0
        pain == IF text.pain_kw # {} THEN Some(SetMax(text.pain_kw)) ELSE None
        budget == IF text.budget_have THEN Some(TRUE)
                  ELSE IF text.budget_no THEN Some(FALSE)
                  ELSE IF text.budget_defer THEN Some(FALSE)
                  ELSE None
        deferred == ~text.budget_have /\ ~text.budget_no /\ text.budget_defer
        authority == IF text.auth_neg THEN Some(FALSE)
                     ELSE IF text.auth_pos THEN Some(TRUE)
                     ELSE IF text.auth_title THEN Some(TRUE)
                     ELSE None
        c2 == IF ~text.auth_neg /\ text.auth_pos THEN Max(c1, 70) ELSE c1
        timeline == IF text.timeline # None THEN text.timeline
                    ELSE IF deferred THEN Some("uncertain")
                    ELSE None
        has_slots == \/ text.size # None
                     \/ pain # None
                     \/ budget # None
                     \/ authority # None
                     \/ timeline # None
        c3 == IF has_slots THEN Max(c2, 60) ELSE c2
        plain == ~isObj /\ ~has_slots
        intent == IF isObj THEN "objection"
                  ELSE IF plain /\ ~text.greeting /\ text.words <= 3 THEN "off_topic"
                  ELSE "answer"
        confidence == IF plain /\ text.greeting THEN 60
                      ELSE IF plain /\ text.words <= 3 THEN 30
                      ELSE c3
    IN [intent |-> intent, company_size |-> text.size, pain |-> pain,
        budget |-> budget, authority |-> authority, timeline |-> timeline,
        objection_type |-> text.objection, confidence |-> confidence]

\* ProspectState(session_id=...) as start_session constructs it.
NewProspectState ==
  [stage |-> "INTRO", turn_count |-> 0,
   learned_fields |-> [s \in Slots |-> None],
   objections |-> <<>>, interest_score |-> 0]

missing_slots(state) ==
  LET unset(s) == state.learned_fields[s] = None
  IN SelectSeq(SLOT_PRIORITY, unset)

filled_slots(state) ==
  LET set(s) == state.learned_fields[s] # None
  IN SelectSeq(QUALIFICATION_SLOTS, set)

\* update_from_signals assigning every slot from the signals, unset ones too.
update_assigns_all(state, signals, min_confidence) ==
  LET meets_confidence == signals.confidence >= min_confidence
      learned == [s \in Slots |->
                    IF meets_confidence THEN SignalSlot(signals, s)
                    ELSE state.learned_fields[s]]
      objections == IF /\ Truthy(signals.objection_type)
                       /\ Val(signals.objection_type) \notin Range(state.objections)
                    THEN Append(state.objections, Val(signals.objection_type))
                    ELSE state.objections
  IN [state EXCEPT !.learned_fields = learned, !.objections = objections]

\* update_from_signals without the test that the slot is still unset.
update_overwrites(state, signals, min_confidence) ==
  LET meets_confidence == signals.confidence >= min_confidence
      learned == [s \in Slots |->
                    IF meets_confidence /\ SignalSlot(signals, s) # None
                    THEN SignalSlot(signals, s)
                    ELSE state.learned_fields[s]]
      objections == IF /\ Truthy(signals.objection_type)
                       /\ Val(signals.objection_type) \notin Range(state.objections)
                    THEN Append(state.objections, Val(signals.objection_type))
                    ELSE state.objections
  IN [state EXCEPT !.learned_fields = learned, !.objections = objections]

\* update_from_signals without the confidence test.
update_ignores_floor(state, signals, min_confidence) ==
  LET learned == [s \in Slots |->
                    IF /\ SignalSlot(signals, s) # None
                       /\ state.learned_fields[s] = None
                    THEN SignalSlot(signals, s)
                    ELSE state.learned_fields[s]]
      objections == IF /\ Truthy(signals.objection_type)
                       /\ Val(signals.objection_type) \notin Range(state.objections)
                    THEN Append(state.objections, Val(signals.objection_type))
                    ELSE state.objections
  IN [state EXCEPT !.learned_fields = learned, !.objections = objections]

update_from_signals(state, signals, min_confidence) ==
  LET meets_confidence == signals.confidence >= min_confidence
      learned == [s \in Slots |->
                    IF /\ meets_confidence
                       /\ SignalSlot(signals, s) # None
                       /\ state.learned_fields[s] = None
                    THEN SignalSlot(signals, s)
                    ELSE state.learned_fields[s]]
      objections == IF /\ Truthy(signals.objection_type)
                       /\ Val(signals.objection_type) \notin Range(state.objections)
                    THEN Append(state.objections, Val(signals.objection_type))
                    ELSE state.objections
  IN [state EXCEPT !.learned_fields = learned, !.objections = objections]

\* DecisionTrace(session_id=...) as start_session constructs it.
NewDecisionTrace == [turns |-> <<>>, ended_reason |-> None]

add_turn(trace, turn) == [trace EXCEPT !.turns = Append(@, turn)]

(* ------------------------------------------------------------------ *)
(* domain/qualification.py                                             *)
(* ------------------------------------------------------------------ *)

STRONG_OBJECTIONS == {"already_have_tool", "not_interested", "too_expensive"}

MILD_OBJECTIONS == {"send_email", "busy"}

RECURSIVE objection_penalty(_)
objection_penalty(objs) ==
  IF objs = <<>> THEN 0
  ELSE (IF Head(objs) \in STRONG_OBJECTIONS THEN 2
        ELSE IF Head(objs) \in MILD_OBJECTIONS THEN 1
        ELSE 0) + objection_penalty(Tail(objs))

\* The sum before the final clamp, in half points.
raw_score(state) ==
  LET lf == state.learned_fields
      pain == IF lf["pain"] = None THEN 0
              ELSE IF Val(lf["pain"]) >= 7 THEN 4
              ELSE IF Val(lf["pain"]) >= 4 THEN 2
              ELSE 0
      size == IF lf["company_size"] # None /\ Val(lf["company_size"]) >= 20
              THEN 2 ELSE 0
      authority == IF lf["authority"] = Some(TRUE) THEN 4 ELSE 0
      budget == IF lf["budget"] = Some(TRUE) THEN 4 ELSE 0
      timeline == IF lf["timeline"] # None /\ lf["timeline"] # Some("unknown")
                  THEN 2 ELSE 0
  IN pain + size + authority + budget + timeline
     - Min(objection_penalty(state.objections), 4)

\* score_opportunity without its final clamp.
score_opportunity_unclamped(state) == raw_score(state)

score_opportunity(state) == Max(0, Min(20, raw_score(state)))

\* round(num / den, 0) as Python rounds a float that holds the quotient
\* exactly at a tie: to the nearest integer, ties to the even one.  num >= 0.
RoundHalfEven(num, den) ==
  LET q == num \div den
      twice == 2 * (num % den)
  IN IF twice < den THEN q
     ELSE IF twice > den THEN q + 1
     ELSE IF q % 2 = 0 THEN q ELSE q + 1

\* The objection items of score_breakdown, lines 123-139.  Points are in
\* tenths of a point (round(..., 1) keeps one decimal): -10 for a strong
\* category, -5 for a mild one, none for any other; when the penalty exceeds
\* 2.0 every item becomes round(points * (2.0 / penalty), 1).
RECURSIVE objection_items(_, _)
objection_items(objs, penalty) ==
  IF objs = <<>> THEN <<>>
  ELSE LET obj == Head(objs)
           points == IF obj \in STRONG_OBJECTIONS THEN 10
                     ELSE IF obj \in MILD_OBJECTIONS THEN 5
                     ELSE 0
           scaled == IF penalty > 20 THEN RoundHalfEven(points * 20, penalty)
                     ELSE points
           rest == objection_items(Tail(objs), penalty)
       IN IF points = 0 THEN rest
          ELSE <<[field |-> "objection", points |-> 0 - scaled]>> \o rest

\* score_breakdown, lines 83-141: the slot items and then the objection
\* items, points in tenths of a point.
score_breakdown(state) ==
  LET lf == state.learned_fields
      item(f, p) == <<[field |-> f, points |-> p]>>
      pain == IF lf["pain"] = None THEN <<>>
              ELSE IF Val(lf["pain"]) >= 7 THEN item("pain", 20)
              ELSE IF Val(lf["pain"]) >= 4 THEN item("pain", 10)
              ELSE item("pain", 0)
      size == IF lf["company_size"] = None THEN <<>>
              ELSE IF Val(lf["company_size"]) >= 20 THEN item("company_size", 10)
              ELSE item("company_size", 0)
      authority == IF lf["authority"] = None THEN <<>>
                   ELSE IF Val(lf["authority"]) THEN item("authority", 20)
                   ELSE item("authority", 0)
      budget == IF lf["budget"] = None THEN <<>>
                ELSE IF Val(lf["budget"]) THEN item("budget", 20)
                ELSE item("budget", 0)
      timeline == IF lf["timeline"] # None /\ lf["timeline"] # Some("unknown")
                  THEN item("timeline", 10) ELSE <<>>
      \* objection_penalty counts half points; five tenths each.
      penalty == 5 * objection_penalty(state.objections)
  IN pain \o size \o authority \o budget \o timeline
       \o objection_items(state.objections, penalty)

\* label_from_score with Strong only above 7.0.
label_from_score_above_seven(score) ==
  IF score < 8 THEN "Weak"
  ELSE IF score <= 14 THEN "Medium"
  ELSE "Strong"

label_from_score(score) ==
  IF score < 8 THEN "Weak"
  ELSE IF score < 14 THEN "Medium"
  ELSE "Strong"

(* ------------------------------------------------------------------ *)
(* domain/decision_engine.py                                           *)
(* ------------------------------------------------------------------ *)

TURN_LIMIT == 10

MAX_OBJECTIONS_HANDLED == 2

\* f"OBJECTION_{objection_type.upper()}"
ObjectionCode(t) ==
  CASE t = "not_interested" -> "OBJECTION_NOT_INTERESTED"
    [] t = "already_have_tool" -> "OBJECTION_ALREADY_HAVE_TOOL"
    [] t = "too_expensive" -> "OBJECTION_TOO_EXPENSIVE"
    [] t = "send_email" -> "OBJECTION_SEND_EMAIL"
    [] t = "busy" -> "OBJECTION_BUSY"
    [] OTHER -> "OBJECTION_OTHER"

\* f"OBJECTION_SKIPPED_{objection_type.upper()}"
SkippedCode(t) ==
  CASE t = "not_interested" -> "OBJECTION_SKIPPED_NOT_INTERESTED"
    [] t = "already_have_tool" -> "OBJECTION_SKIPPED_ALREADY_HAVE_TOOL"
    [] t = "too_expensive" -> "OBJECTION_SKIPPED_TOO_EXPENSIVE"
    [] t = "send_email" -> "OBJECTION_SKIPPED_SEND_EMAIL"
    [] t = "busy" -> "OBJECTION_SKIPPED_BUSY"
    [] OTHER -> "OBJECTION_SKIPPED_OTHER"

SkippedCodes == {SkippedCode(t) : t \in STRONG_OBJECTIONS \cup MILD_OBJECTIONS \cup {"other"}}

\* f"MISSING_SLOT_{next_slot.upper()}"
MissingCode(slot) ==
  CASE slot = "pain" -> "MISSING_SLOT_PAIN"
    [] slot = "company_size" -> "MISSING_SLOT_COMPANY_SIZE"
    [] slot = "authority" -> "MISSING_SLOT_AUTHORITY"
    [] slot = "budget" -> "MISSING_SLOT_BUDGET"
    [] slot = "timeline" -> "MISSING_SLOT_TIMELINE"

MkAction(type, slot, reason_codes) ==
  [type |-> type, slot |-> slot, reason_codes |-> reason_codes]

_pick_best_slot(missing, state) ==
  LET inMissing(s) == s \in Range(missing)
      ordered == SelectSeq(SLOT_PRIORITY, inMissing)
  IN IF ordered # <<>> THEN Head(ordered) ELSE Head(missing)

\* HardStop with the bail-out threshold at 3.0 instead of 4.0.
HardStopLowBar(state, signals) ==
  IF signals.intent = "end"
  THEN Some(MkAction("END", None, <<"USER_ENDED">>))
  ELSE IF state.turn_count >= TURN_LIMIT
  THEN Some(MkAction("END", None, <<"TURN_LIMIT_REACHED">>))
  ELSE IF missing_slots(state) = <<>> /\ state.interest_score < 6
  THEN Some(MkAction("END", None, <<"ALL_SLOTS_FILLED", "SCORE_TOO_LOW">>))
  ELSE None

\* HardStop without its first test, the end-of-call intent.
HardStopIgnoresEnd(state, signals) ==
  IF state.turn_count >= TURN_LIMIT
  THEN Some(MkAction("END", None, <<"TURN_LIMIT_REACHED">>))
  ELSE IF missing_slots(state) = <<>> /\ state.interest_score < 8
  THEN Some(MkAction("END", None, <<"ALL_SLOTS_FILLED", "SCORE_TOO_LOW">>))
  ELSE None

\* Rules 1 and 2 of the cascade (lines 56-82): the hard stops and the bail-out.
HardStop(state, signals) ==
  IF signals.intent = "end"
  THEN Some(MkAction("END", None, <<"USER_ENDED">>))
  ELSE IF state.turn_count >= TURN_LIMIT
  THEN Some(MkAction("END", None, <<"TURN_LIMIT_REACHED">>))
  ELSE IF missing_slots(state) = <<>> /\ state.interest_score < 8
  THEN Some(MkAction("END", None, <<"ALL_SLOTS_FILLED", "SCORE_TOO_LOW">>))
  ELSE None

\* ObjectionRule without the cap on handled objections.
ObjectionRuleNoCap(signals, prior) ==
  IF signals.intent = "objection" /\ Truthy(signals.objection_type)
  THEN LET t == Val(signals.objection_type)
       IN IF t = "busy"
          THEN [action |-> Some(MkAction("END", None, <<"CALLBACK_REQUESTED">>)),
                reasons |-> <<>>]
          ELSE IF t \notin prior
          THEN [action |-> Some(MkAction("HANDLE_OBJECTION", None, <<ObjectionCode(t)>>)),
                reasons |-> <<>>]
          ELSE [action |-> None, reasons |-> <<SkippedCode(t)>>]
  ELSE [action |-> None, reasons |-> <<>>]

\* ObjectionRule without the busy branch: busy is handled like any category.
ObjectionRuleBusyHandled(signals, prior) ==
  IF signals.intent = "objection" /\ Truthy(signals.objection_type)
  THEN LET t == Val(signals.objection_type)
       IN IF t \notin prior /\ Cardinality(prior) < MAX_OBJECTIONS_HANDLED
          THEN [action |-> Some(MkAction("HANDLE_OBJECTION", None, <<ObjectionCode(t)>>)),
                reasons |-> <<>>]
          ELSE [action |-> None, reasons |-> <<SkippedCode(t)>>]
  ELSE [action |-> None, reasons |-> <<>>]

\* Rule 3 (lines 84-104): either an action, or the reasons carried on.
ObjectionRule(signals, prior) ==
  IF signals.intent = "objection" /\ Truthy(signals.objection_type)
  THEN LET t == Val(signals.objection_type)
           is_new == t \notin prior
           total_handled == Cardinality(prior)
       IN IF t = "busy"
          THEN [action |-> Some(MkAction("END", None, <<"CALLBACK_REQUESTED">>)),
                reasons |-> <<>>]
          ELSE IF is_new /\ total_handled < MAX_OBJECTIONS_HANDLED
          THEN [action |-> Some(MkAction("HANDLE_OBJECTION", None, <<ObjectionCode(t)>>)),
                reasons |-> <<>>]
          ELSE [action |-> None, reasons |-> <<SkippedCode(t)>>]
  ELSE [action |-> None, reasons |-> <<>>]

\* CloseOrProbe closing on filled slots alone, the score test left out.
CloseOrProbeAnyScore(state, reasons) ==
  LET missing == missing_slots(state)
  IN IF missing = <<>>
     THEN MkAction("CLOSE", None,
                   reasons \o <<"ALL_SLOTS_FILLED", "SCORE_STRONG_ENOUGH">>)
     ELSE IF state.stage = "INTRO"
     THEN MkAction("ASK_SLOT", Some("pain"),
                   reasons \o <<"INTRO_TO_DISCOVERY", MissingCode("pain")>>)
     ELSE LET next_slot == _pick_best_slot(missing, state)
          IN MkAction("ASK_SLOT", Some(next_slot),
                      reasons \o <<MissingCode(next_slot)>>)

\* Rules 4 to 6 (lines 106-139): close, probe, fallback.
CloseOrProbe(state, reasons) ==
  LET missing == missing_slots(state)
  IN IF missing = <<>> /\ state.interest_score >= 12
     THEN MkAction("CLOSE", None,
                   reasons \o <<"ALL_SLOTS_FILLED", "SCORE_STRONG_ENOUGH">>)
     ELSE IF missing # <<>>
     THEN IF state.stage = "INTRO"
          THEN MkAction("ASK_SLOT", Some("pain"),
                        reasons \o <<"INTRO_TO_DISCOVERY", MissingCode("pain")>>)
          ELSE LET next_slot == _pick_best_slot(missing, state)
               IN MkAction("ASK_SLOT", Some(next_slot),
                           reasons \o <<MissingCode(next_slot)>>)
     ELSE MkAction("END", None, reasons \o <<"FALLBACK_NO_ACTION">>)

\* decide_next_action consulting the objection rule before the hard stops.
decide_objection_first(state, signals, prior_objections) ==
  LET stop == HardStop(state, signals)
      obj == ObjectionRule(signals, prior_objections)
  IN IF obj.action # None THEN Val(obj.action)
     ELSE IF stop # None THEN Val(stop)
     ELSE CloseOrProbe(state, obj.reasons)

decide_next_action(state, signals, prior_objections) ==
  LET stop == HardStop(state, signals)
      obj == ObjectionRule(signals, prior_objections)
  IN IF stop # None THEN Val(stop)
     ELSE IF obj.action # None THEN Val(obj.action)
     ELSE CloseOrProbe(state, obj.reasons)

\* next_stage_from_action with ASK_SLOT after an objection going back to
\* DISCOVERY instead of QUALIFY.
next_stage_back_to_discovery(current, action) ==
  IF action.type = "END" THEN "END"
  ELSE IF action.type = "CLOSE" THEN "CLOSE"
  ELSE IF action.type = "HANDLE_OBJECTION" THEN "OBJECTION"
  ELSE IF action.type = "ASK_SLOT"
  THEN IF current = "INTRO" THEN "DISCOVERY"
       ELSE IF current = "OBJECTION" THEN "DISCOVERY"
       ELSE "QUALIFY"
  ELSE current

next_stage_from_action(current, action) ==
  IF action.type = "END" THEN "END"
  ELSE IF action.type = "CLOSE" THEN "CLOSE"
  ELSE IF action.type = "HANDLE_OBJECTION" THEN "OBJECTION"
  ELSE IF action.type = "ASK_SLOT"
  THEN IF current = "INTRO" THEN "DISCOVERY"
       ELSE IF current = "OBJECTION" THEN "QUALIFY"
       ELSE "QUALIFY"
  ELSE current

(* ------------------------------------------------------------------ *)
(* core/settings.py                                                    *)
(* ------------------------------------------------------------------ *)

LLM_MIN_CONFIDENCE == 35

(* ------------------------------------------------------------------ *)
(* domain/outcome.py, infra/session_store.py, usecases/end_call.py     *)
(* ------------------------------------------------------------------ *)

\* _recommended_next_action with the Medium recommendation given only to a
\* prospect who has budget.
_recommended_next_action_budget_gated(state, label) ==
  IF filled_slots(state) = <<>> THEN "Re-attempt call with revised opener"
  ELSE IF label = "Strong"
  THEN IF state.learned_fields["authority"] = Some(TRUE)
       THEN "Fast-track to demo with decision-maker"
       ELSE "Schedule discovery call with AE to reach decision-maker"
  ELSE IF label = "Medium" /\ state.learned_fields["budget"] = Some(TRUE)
  THEN "Schedule discovery call with AE"
  ELSE IF "not_interested" \in Range(state.objections)
  THEN "Move to nurture track; re-engage in 60 days"
  ELSE "Nurture via email drip; re-engage in 30 days"

\* _recommended_next_action: outcome.py lines 55-75.
_recommended_next_action(state, label) ==
  IF filled_slots(state) = <<>> THEN "Re-attempt call with revised opener"
  ELSE IF label = "Strong"
  THEN IF state.learned_fields["authority"] = Some(TRUE)
       THEN "Fast-track to demo with decision-maker"
       ELSE "Schedule discovery call with AE to reach decision-maker"
  ELSE IF label = "Medium"
  THEN "Schedule discovery call with AE"
  ELSE IF "not_interested" \in Range(state.objections)
  THEN "Move to nurture track; re-engage in 60 days"
  ELSE "Nurture via email drip; re-engage in 30 days"

\* The outcome dict: a snapshot (dict(...) and to_dict() copies) of the
\* state and the trace at the moment it is built.
build_outcome(state, trace) ==
  LET final_score == score_opportunity(state)
  IN [learned_fields |-> state.learned_fields,
      opportunity_score |-> final_score,
      opportunity_label |-> label_from_score(final_score),
      recommended_next_action |->
        _recommended_next_action(state, label_from_score(final_score)),
      objections |-> state.objections,
      ended |-> IF trace.ended_reason # None THEN Val(trace.ended_reason)
                ELSE "agent decision",
      decision_trace |-> trace.turns]

\* _store[session_id] right after create_session.  silent stands for
\* time.monotonic() - last_user_at > settings.silence_timeout_seconds.
create_session(state, trace) ==
  [state |-> state, trace |-> trace, status |-> "running", outcome |-> None,
   silent |-> FALSE]

save_session(session, state, trace) ==
  [session EXCEPT !.state = state, !.trace = trace, !.silent = FALSE]

set_outcome(session, outcome) ==
  [session EXCEPT !.status = "completed", !.outcome = Some(outcome)]

\* end_call without its idempotency test: it builds and stores every time.
end_call_rebuilds(session, ended_reason) ==
  LET trace == [session.trace EXCEPT !.ended_reason =
                   IF Truthy(@) THEN @ ELSE Some(ended_reason)]
      outcome == build_outcome(session.state, trace)
  IN [session |-> set_outcome([session EXCEPT !.trace = trace], outcome),
      outcome |-> outcome, built |-> TRUE]

\* end_call on the live state and trace objects of the session.  Returns the
\* session afterwards, the outcome handed back, and whether one was built.
end_call(session, ended_reason) ==
  IF session.status = "completed" /\ session.outcome # None
  THEN [session |-> session, outcome |-> Val(session.outcome), built |-> FALSE]
  ELSE LET trace == [session.trace EXCEPT !.ended_reason =
                        IF Truthy(@) THEN @ ELSE Some(ended_reason)]
           outcome == build_outcome(session.state, trace)
       IN [session |-> set_outcome([session EXCEPT !.trace = trace], outcome),
           outcome |-> outcome, built |-> TRUE]

(* ------------------------------------------------------------------ *)
(* usecases/process_input.py                                           *)
(* ------------------------------------------------------------------ *)

\* The completed test comparing with a status the store never sets.
AlreadyCompletedWrongStatus(session) == session.status = "ended"

\* Line 59: the test that makes process_input return the stored outcome.
AlreadyCompleted(session) == session.status = "completed"

\* Lines 59-66: the answer for a session that is already completed.
CompletedResult(session) ==
  [status |-> "completed", agent_text |-> None,
   opportunity_score |-> Val(session.outcome).opportunity_score,
   ended |-> TRUE, outcome |-> session.outcome]

\* ChooseSignals tagging the extraction as the provider's as soon as the
\* provider answers, before the confidence test.
ChooseSignalsTagsEarly(reply, text) ==
  IF reply = None
  THEN [signals |-> extract_signals_rule_based(text), extracted_source |-> "rule_based"]
  ELSE IF Val(reply).confidence < LLM_MIN_CONFIDENCE
  THEN [signals |-> extract_signals_rule_based(text), extracted_source |-> "llm"]
  ELSE [signals |-> Val(reply), extracted_source |-> "llm"]

\* Lines 74-103: which signals the turn uses.  reply is None when the
\* provider raised, and otherwise the signals it returned.
ChooseSignals(reply, text) ==
  IF reply = None \/ Val(reply).confidence < LLM_MIN_CONFIDENCE
  THEN [signals |-> extract_signals_rule_based(text), extracted_source |-> "rule_based"]
  ELSE [signals |-> Val(reply), extracted_source |-> "llm"]

\* Lines 106-123, which run without suspension: snapshot, merge, score,
\* decide, stage.  Returns the state afterwards and the turn's locals.
\* MergeAndDecide with lines 114-115 run before line 111: the score is
\* taken from the state as it was before this turn's signals were merged.
MergeAndDecideStaleScore(state, signals) ==
  LET score_before == state.interest_score
      objections_before == Range(state.objections)
      merged == update_from_signals(state, signals, LLM_MIN_CONFIDENCE)
      score_after == score_opportunity(state)
      scored == [merged EXCEPT !.interest_score = score_after]
      action == decide_next_action(scored, signals, objections_before)
      stage_before == scored.stage
      stage_after == next_stage_from_action(scored.stage, action)
  IN [state |-> [scored EXCEPT !.stage = stage_after],
      objections_before |-> objections_before,
      score_before |-> score_before, score_after |-> score_after,
      action |-> action, stage_before |-> stage_before,
      stage_after |-> stage_after]

MergeAndDecide(state, signals) ==
  LET score_before == state.interest_score
      objections_before == Range(state.objections)
      merged == update_from_signals(state, signals, LLM_MIN_CONFIDENCE)
      score_after == score_opportunity(merged)
      scored == [merged EXCEPT !.interest_score = score_after]
      action == decide_next_action(scored, signals, objections_before)
      stage_before == scored.stage
      stage_after == next_stage_from_action(scored.stage, action)
  IN [state |-> [scored EXCEPT !.stage = stage_after],
      objections_before |-> objections_before,
      score_before |-> score_before, score_after |-> score_after,
      action |-> action, stage_before |-> stage_before,
      stage_after |-> stage_after]

\* Lines 318-349: the fixed reply for an action, held as the table entry it
\* is read from.
_generate_agent_text(action, signals) ==
  IF action.type = "ASK_SLOT" /\ action.slot # None
  THEN <<"_SLOT_QUESTIONS", Val(action.slot)>>
  ELSE IF action.type = "HANDLE_OBJECTION"
  THEN IF /\ Truthy(signals.objection_type)
          /\ Val(signals.objection_type) \in STRONG_OBJECTIONS \cup MILD_OBJECTIONS
       THEN <<"_OBJECTION_RESPONSES", Val(signals.objection_type)>>
       ELSE <<"_OBJECTION_RESPONSES", "default">>
  ELSE IF action.type = "CLOSE"
  THEN <<"_CLOSE_TEXT">>
  ELSE IF action.type = "END"
  THEN LET known(r) == r \in {"USER_ENDED", "TURN_LIMIT_REACHED", "ALL_SLOTS_FILLED",
                              "SCORE_TOO_LOW", "SILENCE_TIMEOUT"}
           hits == SelectSeq(action.reason_codes, known)
       IN IF hits # <<>> THEN <<"_END_TEXTS", Head(hits)>> ELSE <<"_END_DEFAULT">>
  ELSE <<"_END_DEFAULT">>

\* Lines 125-147: the agent's words and their source.  reply is None when
\* the wording provider raised, and otherwise the text it returned.
ChooseWording(reply, action, signals) ==
  IF reply = None
  THEN [agent_text |-> _generate_agent_text(action, signals), wording_source |-> "template"]
  ELSE [agent_text |-> Val(reply), wording_source |-> "llm"]

\* Lines 149-208, which run without suspension: record the trace turn,
\* save, finalize a terminal action, build the result.  t holds the turn's
\* locals.
RecordAndFinish(session, t, wording) ==
  LET turn == [turn_index |-> session.state.turn_count,
               intent |-> t.signals.intent,
               objection_type |-> t.signals.objection_type,
               action |-> t.action.type,
               reasons |-> t.action.reason_codes,
               score_before |-> t.score_before,
               score_after |-> t.score_after,
               stage_before |-> t.stage_before,
               stage_after |-> t.stage_after,
               extracted_source |-> t.extracted_source,
               wording_source |-> wording.wording_source]
      trace == add_turn(session.trace, turn)
      saved == save_session(session, session.state, trace)
      ended == t.action.type \in {"END", "CLOSE"}
      reason == IF t.action.reason_codes # <<>> THEN t.action.reason_codes[1]
                ELSE "agent_decision"
      fin == end_call([saved EXCEPT !.trace.ended_reason = Some(reason)], reason)
  IN IF ended
     THEN [session |-> fin.session, built |-> fin.built,
           result |-> [status |-> "completed", agent_text |-> Some(wording.agent_text),
                       opportunity_score |-> t.score_after, ended |-> TRUE,
                       outcome |-> Some(fin.outcome)]]
     ELSE [session |-> saved, built |-> FALSE,
           result |-> [status |-> "running", agent_text |-> Some(wording.agent_text),
                       opportunity_score |-> t.score_after, ended |-> FALSE,
                       outcome |-> None]]

(* ------------------------------------------------------------------ *)
(* Inputs                                                              *)
(* ------------------------------------------------------------------ *)

\* Utterances, by name, with what the extractor's patterns find in them.
Catalog ==
  [yeah |->      \* "yeah"
     [NoMatch EXCEPT !.words = 1],
   goodbye |->   \* "No thanks, goodbye."
     [NoMatch EXCEPT !.end = TRUE, !.objection = Some("not_interested"), !.words = 3],
   busy |->      \* "Look, I'm really busy right now, can you call me back?"
     [NoMatch EXCEPT !.objection = Some("busy"), !.words = 11],
   have_tool |-> \* "We already have a tool for this."
     [NoMatch EXCEPT !.objection = Some("already_have_tool"), !.words = 7],
   not_interested |-> \* "I'm really not interested."
     [NoMatch EXCEPT !.objection = Some("not_interested"), !.words = 4],
   send_email |-> \* "Just send me an email."
     [NoMatch EXCEPT !.objection = Some("send_email"), !.words = 5],
   pain_size |-> \* "We're struggling, it's all manual. We're about 50 people."
     [NoMatch EXCEPT !.pain_kw = {8, 6}, !.size = Some(50), !.words = 9],
   boss_defer |-> \* "I'd need to ask my boss, and budget depends on the numbers."
     [NoMatch EXCEPT !.auth_neg = TRUE, !.budget_defer = TRUE, !.words = 12],
   vp_budget |-> \* "I'm the VP of Sales and we have budget set aside for this quarter."
     [NoMatch EXCEPT !.auth_title = TRUE, !.budget_have = TRUE,
                     !.timeline = Some("this quarter"), !.words = 14],
   no_budget |-> \* "There is no budget, it's too expensive."
     [NoMatch EXCEPT !.objection = Some("too_expensive"), !.budget_no = TRUE,
                     !.words = 7],
   intro |->     \* "Sure, what is this about?"
     [NoMatch EXCEPT !.words = 5],
   pain_7 |->    \* "Outbound is really painful for us, I'd say 7 out of 10."
     [NoMatch EXCEPT !.pain_kw = {8}, !.words = 12],
   size_50 |->   \* "We're about 50 people on the team."
     [NoMatch EXCEPT !.size = Some(50), !.words = 7],
   correction_200 |-> \* "Actually we're 200 people, I misspoke."
     [NoMatch EXCEPT !.size = Some(200), !.words = 6],
   strong_1 |->  \* "Yeah sure, I have a minute. What's this about?"
     [NoMatch EXCEPT !.greeting = TRUE, !.words = 9],
   strong_2 |->  \* "Honestly, outbound is a huge pain point for us. We're spending
                 \*  way too much time on manual work. Pain is like 8 out of 10."
     [NoMatch EXCEPT !.pain_kw = {6}, !.words = 25],
   strong_3 |->  \* "We're about 50 people on the sales team."
     [NoMatch EXCEPT !.size = Some(50), !.words = 8],
   strong_4 |->  \* "Yes, I'm the VP of Sales, I make the call on tools like this."
     [NoMatch EXCEPT !.auth_pos = TRUE, !.auth_title = TRUE, !.words = 14],
   strong_5 |->  \* "We do have budget set aside for this quarter."
     [NoMatch EXCEPT !.budget_have = TRUE, !.timeline = Some("this quarter"),
                     !.words = 9],
   strong_6 |->  \* "We're looking to get something in place this quarter, ideally ASAP."
     [NoMatch EXCEPT !.timeline = Some("this quarter"), !.words = 11],
   strong_7 |->  \* "Sure, I'd be open to a demo. Let's do it."
     [NoMatch EXCEPT !.words = 10],
   weak_1 |->    \* "I'm really not interested, we already have a tool for this."
     [NoMatch EXCEPT !.objection = Some("not_interested"), !.words = 11],
   weak_2 |->    \* "Look, I'm really busy right now, can you just send me an email?"
     [NoMatch EXCEPT !.objection = Some("send_email"), !.words = 13]]

Utterances == DOMAIN Catalog

\* The utterances of usecases/_demo_alignment_and_corrections.py, TEST 1 and 2.
DemoUtterances == {"intro", "yeah", "pain_7", "size_50", "correction_200"}

\* evals/scenarios.py: the scripted turns of strong_lead and of weak_lead.
SCENARIOS ==
  [strong_lead |-> <<"strong_1", "strong_2", "strong_3", "strong_4", "strong_5",
                     "strong_6", "strong_7">>,
   weak_lead |-> <<"weak_1", "weak_2", "goodbye">>]

ScenarioUtterances == Range(SCENARIOS.strong_lead) \cup Range(SCENARIOS.weak_lead)

\* The utterances that are marked as corrections of an earlier answer.
Corrections == {"correction_200"}

\* What the extraction provider may answer with.
LLMReplies ==
  { [DefaultSignals EXCEPT !.intent = "objection", !.objection_type = Some("busy"),
                           !.confidence = 90],
    [DefaultSignals EXCEPT !.intent = "objection", !.objection_type = Some("other"),
                           !.confidence = 80],
    [DefaultSignals EXCEPT !.pain = Some(2), !.company_size = Some(10),
                           !.timeline = Some("unknown"), !.confidence = 85],
    [DefaultSignals EXCEPT !.pain = Some(9), !.confidence = 20] }

Callers == {"post_input", "voice"}

(* ------------------------------------------------------------------ *)
(* State                                                               *)
(* ------------------------------------------------------------------ *)

VARIABLES
  session,           \* the session's entry in _store
  frames,            \* per caller: the process_input call it has in flight
  returned,          \* what the process_input call that returned last returned
  force_rule_based,  \* settings.force_rule_based
  outcomes_built,    \* how many times build_outcome and set_outcome have run
  probe              \* the pure-function specifications: the input and the result;
                     \* under SpecBrain: the fields of the BrainProcessor

vars == <<session, frames, returned, force_rule_based, outcomes_built, probe>>

NoProbe == [pc |-> "none"]

IdleFrame ==
  [pc |-> "idle", user_text |-> "", signals |-> DefaultSignals,
   extracted_source |-> "", objections_before |-> {},
   score_before |-> 0, score_after |-> 0,
   action |-> MkAction("", None, <<>>), stage_before |-> "", stage_after |-> ""]

InFlight == {c \in Callers : frames[c].pc # "idle"}

Init ==
  /\ session = create_session(NewProspectState, NewDecisionTrace)
  /\ frames = [c \in Callers |-> IdleFrame]
  /\ returned = None
  /\ force_rule_based \in BOOLEAN
  /\ outcomes_built = 0
  /\ probe = NoProbe

\* The locals of a turn once its action is decided.
Decided(frame, chosen, d) ==
  [frame EXCEPT !.signals = chosen.signals,
                !.extracted_source = chosen.extracted_source,
                !.objections_before = d.objections_before,
                !.score_before = d.score_before, !.score_after = d.score_after,
                !.action = d.action, !.stage_before = d.stage_before,
                !.stage_after = d.stage_after]

\* process_input on a completed session, lines 54-66, as it acts on the
\* store and on its caller.
CompletedCall(c, text) ==
  /\ frames[c].pc = "idle"
  /\ AlreadyCompleted(session)
  /\ returned' = Some([caller |-> c, result |-> CompletedResult(session)])
  /\ UNCHANGED <<session, frames, force_rule_based, outcomes_built>>

\* process_input on a completed session: lines 54-66.
ProcessInputCompleted(c, text) == CompletedCall(c, text) /\ UNCHANGED probe

\* process_input up to its first suspension, lines 54-84, as it acts on the
\* store and on its caller.
BegunCall(c, text) ==
  /\ frames[c].pc = "idle"
  /\ ~AlreadyCompleted(session)
  /\ ~force_rule_based
  /\ session' = [session EXCEPT !.state.turn_count = @ + 1]
  /\ frames' = [frames EXCEPT ![c] = [IdleFrame EXCEPT !.pc = "extract", !.user_text = text]]
  /\ UNCHANGED <<returned, force_rule_based, outcomes_built>>

\* process_input up to its first suspension, await extract_signals_llm: lines 54-84.
ProcessInputBegin(c, text) == BegunCall(c, text) /\ UNCHANGED probe

\* The extraction provider answers or raises; the turn runs on to its second
\* suspension, await generate_agent_utterance_llm: lines 85-135.
ExtractionReturns(c, reply) ==
  /\ frames[c].pc = "extract"
  /\ LET chosen == ChooseSignals(reply, Catalog[frames[c].user_text])
         d == MergeAndDecide(session.state, chosen.signals)
     IN /\ session' = [session EXCEPT !.state = d.state]
        /\ frames' = [frames EXCEPT ![c] = [Decided(@, chosen, d) EXCEPT !.pc = "wording"]]
  /\ UNCHANGED <<returned, force_rule_based, outcomes_built, probe>>

\* The wording provider answers with a text or raises (None); the turn runs
\* to its return: lines 136-208.
WordingReturns(c, reply) ==
  /\ frames[c].pc = "wording"
  /\ LET fin == RecordAndFinish(session, frames[c],
                                ChooseWording(reply, frames[c].action, frames[c].signals))
     IN /\ session' = fin.session
        /\ returned' = Some([caller |-> c, result |-> fin.result])
        /\ outcomes_built' = outcomes_built + (IF fin.built THEN 1 ELSE 0)
  /\ frames' = [frames EXCEPT ![c] = IdleFrame]
  /\ UNCHANGED <<force_rule_based, probe>>

\* process_input with settings.force_rule_based, as it acts on the store and
\* on its caller.
RuleBasedCall(c, text) ==
  /\ frames[c].pc = "idle"
  /\ ~AlreadyCompleted(session)
  /\ force_rule_based
  /\ LET started == [session EXCEPT !.state.turn_count = @ + 1]
         chosen == [signals |-> extract_signals_rule_based(Catalog[text]),
                    extracted_source |-> "rule_based"]
         d == MergeAndDecide(started.state, chosen.signals)
         fin == RecordAndFinish([started EXCEPT !.state = d.state],
                                Decided(IdleFrame, chosen, d),
                                ChooseWording(None, d.action, chosen.signals))
     IN /\ session' = fin.session
        /\ returned' = Some([caller |-> c, result |-> fin.result])
        /\ outcomes_built' = outcomes_built + (IF fin.built THEN 1 ELSE 0)
  /\ UNCHANGED <<frames, force_rule_based>>

\* process_input with settings.force_rule_based: no suspension, the whole
\* turn is one step.
ProcessInputRuleBased(c, text) == RuleBasedCall(c, text) /\ UNCHANGED probe

(* ------------------------------------------------------------------ *)
(* main.py: the silence watchdog                                       *)
(* ------------------------------------------------------------------ *)

\* Time passes until the session has been silent for longer than the timeout.
SilenceElapses ==
  /\ ~session.silent
  /\ session' = [session EXCEPT !.silent = TRUE]
  /\ UNCHANGED <<frames, returned, force_rule_based, outcomes_built, probe>>

\* _silence_watchdog without the test elapsed > timeout.
_silence_watchdog_any_running ==
  /\ session.status = "running"
  /\ LET fin == end_call([session EXCEPT !.trace.ended_reason = Some("SILENCE_TIMEOUT")],
                         "SILENCE_TIMEOUT")
     IN /\ session' = fin.session
        /\ outcomes_built' = outcomes_built + (IF fin.built THEN 1 ELSE 0)
  /\ UNCHANGED <<frames, returned, force_rule_based, probe>>

\* One pass of the watchdog loop over a running session: lines 107-124.
_silence_watchdog ==
  /\ session.status = "running"
  /\ session.silent
  /\ LET fin == end_call([session EXCEPT !.trace.ended_reason = Some("SILENCE_TIMEOUT")],
                         "SILENCE_TIMEOUT")
     IN /\ session' = fin.session
        /\ outcomes_built' = outcomes_built + (IF fin.built THEN 1 ELSE 0)
  /\ UNCHANGED <<frames, returned, force_rule_based, probe>>

(* ------------------------------------------------------------------ *)
(* Specifications                                                      *)
(* ------------------------------------------------------------------ *)

\* The most turns a session is driven to under Spec.
MaxTurns == 2

\* The most turns a session is driven to under SpecSolo.
MaxSoloTurns == 3

AnyReply(replies) == {None} \cup {Some(r) : r \in replies}

\* The wording provider raised.
WordingFails == {None}

\* The wording provider raised, or answered with a text of its own.
WordingAnswers == {None, Some(<<"generated">>)}

\* The steps of the callers in cs, their utterances drawn from texts, the
\* extraction provider's answers from replies, the wording provider's
\* answers from wordings, and a turn begun only while from <= turn_count < cap.
Turns(cs, texts, replies, wordings, from, cap) ==
  \E c \in cs :
    \/ \E text \in texts : ProcessInputCompleted(c, text)
    \/ \E text \in texts :
         /\ session.state.turn_count \in from..(cap - 1)
         /\ ProcessInputBegin(c, text)
    \/ \E text \in texts :
         /\ session.state.turn_count \in from..(cap - 1)
         /\ ProcessInputRuleBased(c, text)
    \/ \E reply \in AnyReply(replies) : ExtractionReturns(c, reply)
    \/ \E w \in wordings : WordingReturns(c, w)

\* Two callers whose requests may overlap, and the watchdog.
Next ==
  \/ Turns(Callers, {"goodbye", "busy", "have_tool", "pain_size", "boss_defer"},
           {}, WordingAnswers, 0, MaxTurns)
  \/ SilenceElapses
  \/ _silence_watchdog

Spec == Init /\ [][Next]_vars

\* One caller, every utterance and provider answer, and the watchdog.
NextSolo ==
  \/ Turns({"post_input"}, (Utterances \ {"intro", "pain_7", "size_50", "correction_200"})
                           \ (ScenarioUtterances \ {"goodbye"}),
           LLMReplies, WordingFails, 0, MaxSoloTurns)
  \/ SilenceElapses
  \/ _silence_watchdog

SpecSolo == Init /\ [][NextSolo]_vars

\* A session driven up to the turn limit by one caller; the requests of a
\* second caller overlap its last turns.  And the watchdog.
NextDeep ==
  \/ Turns({"post_input"}, {"yeah", "goodbye"}, {}, WordingFails, 0, TURN_LIMIT + 1)
  \/ Turns({"voice"}, {"yeah", "goodbye"}, {}, WordingFails,
           TURN_LIMIT - 1, TURN_LIMIT + 1)
  \/ SilenceElapses
  \/ _silence_watchdog

SpecDeep == Init /\ [][NextDeep]_vars

\* The most turns a session is driven to under SpecProviders.
MaxProviderTurns == 3

\* One caller, with every outcome of the extraction provider and of the
\* wording provider.  And the watchdog.
NextProviders ==
  \/ Turns({"post_input"}, {"yeah", "pain_size", "goodbye"}, LLMReplies,
           WordingAnswers, 0, MaxProviderTurns)
  \/ SilenceElapses
  \/ _silence_watchdog

SpecProviders == Init /\ [][NextProviders]_vars

\* The most turns a session is driven to under SpecDemo.
MaxDemoTurns == 4

\* One caller saying the demo's utterances, the extraction provider failing
\* or switched off.  And the watchdog.
NextDemo ==
  \/ Turns({"post_input"}, DemoUtterances, {}, WordingFails, 0, MaxDemoTurns)
  \/ SilenceElapses
  \/ _silence_watchdog

SpecDemo == Init /\ [][NextDemo]_vars

(* ------------------------------------------------------------------ *)
(* SpecWatch: a session under the running application                  *)
(* ------------------------------------------------------------------ *)

\* The most turns a session is driven to under SpecWatch.
MaxWatchTurns == 3

\* One caller, and the watchdog.
NextWatch ==
  \/ Turns({"post_input"}, {"yeah", "pain_size", "goodbye"}, {}, WordingFails,
           0, MaxWatchTurns)
  \/ SilenceElapses
  \/ _silence_watchdog

\* Time goes on, and the watchdog task started at startup wakes every two
\* seconds for as long as the application runs.
SpecWatch ==
  /\ Init
  /\ [][NextWatch]_vars
  /\ WF_vars(SilenceElapses)
  /\ WF_vars(_silence_watchdog)

(* ------------------------------------------------------------------ *)
(* infra/pipecat/brain.py: the voice pipeline's turns                  *)
(* ------------------------------------------------------------------ *)

\* process_frame on UserStartedSpeakingFrame cancels the debounce task, which
\* is the task that awaits process_input: the turn gets CancelledError at the
\* await it is suspended in (not caught by `except Exception`) and is
\* abandoned with whatever it has already written to the shared state.
TurnCancelled(c) ==
  /\ frames[c].pc \in {"extract", "wording"}
  /\ frames' = [frames EXCEPT ![c] = IdleFrame]
  /\ UNCHANGED <<session, returned, force_rule_based, outcomes_built, probe>>

\* The most turns a session is driven to under SpecVoice.
MaxVoiceTurns == 3

\* The voice pipeline alone: one turn at a time (BrainProcessor._processing),
\* a turn may be cancelled by the user speaking again.  And the watchdog.
NextVoice ==
  \/ Turns({"voice"}, {"yeah", "pain_size", "goodbye"}, {}, WordingFails,
           0, MaxVoiceTurns)
  \/ TurnCancelled("voice")
  \/ SilenceElapses
  \/ _silence_watchdog

SpecVoice == Init /\ [][NextVoice]_vars

(* ------------------------------------------------------------------ *)
(* infra/pipecat/brain.py: BrainProcessor                              *)
(* ------------------------------------------------------------------ *)

\* The most final transcriptions the pipeline delivers under SpecBrain.
MaxFragments == 3

\* What the user says in one final transcription.
FragmentUtterances == {"strong_7", "goodbye"}

\* " ".join(fragments) as the extractor reads it: an end phrase anywhere in
\* the text matches, and the other fragments match no pattern.
JoinedText(fragments) ==
  IF \E i \in 1..Len(fragments) : fragments[i].utt = "goodbye" THEN "goodbye" ELSE "strong_7"

\* The numbers of the transcriptions in a text.
FragmentIds(fragments) == {fragments[i].id : i \in 1..Len(fragments)}

\* BrainProcessor.__init__, lines 52-57.  _debounce_task is the await the
\* task is suspended in ("none": no task, or one that is done): "sleep" is
\* line 131, "call" the entry of process_input at line 165, "await" inside
\* process_input, "hangup" line 184.  received, calls, reported and pushed
\* record what the processor was given and what it did.
NewBrainProcessor ==
  [pc |-> "brain", _processing |-> FALSE, _ended |-> FALSE, _user_speaking |-> FALSE,
   _pending_text |-> <<>>, _debounce_task |-> "none", text |-> <<>>,
   heard |-> 0, received |-> {}, calls |-> <<>>, reported |-> FALSE, pushed |-> <<>>]

InitBrain ==
  /\ session = create_session(NewProspectState, NewDecisionTrace)
  /\ frames = [c \in Callers |-> IdleFrame]
  /\ returned = None
  /\ force_rule_based \in BOOLEAN
  /\ outcomes_built = 0
  /\ probe = NewBrainProcessor

\* The event loop can run process_frame: the task is not between two of its
\* own statements.
BetweenFrames ==
  /\ probe._debounce_task # "call"
  /\ ~(probe._debounce_task = "await" /\ frames["voice"].pc = "idle")

\* _restart_debounce, lines 123-127.
_restart_debounce(b) == [b EXCEPT !._debounce_task = "sleep"]

\* _debounce_task.cancel(): CancelledError is raised at the await the task is
\* suspended in.  In the sleep of line 131 it is caught; in process_input and
\* in the sleep of line 184 it unwinds through the finally of line 199.
cancel(b) == [b EXCEPT !._debounce_task = "none", !._processing = FALSE]

\* process_frame on UserStartedSpeakingFrame: lines 63-73.
UserStartedSpeakingFrame ==
  /\ BetweenFrames
  /\ probe' = [cancel(probe) EXCEPT !._user_speaking = TRUE]
  /\ frames' = [frames EXCEPT !["voice"] = IdleFrame]
  /\ UNCHANGED <<session, returned, force_rule_based, outcomes_built>>

\* process_frame on UserStoppedSpeakingFrame: lines 76-86.
UserStoppedSpeakingFrame ==
  /\ BetweenFrames
  /\ LET b == [probe EXCEPT !._user_speaking = FALSE]
     IN probe' = IF b._pending_text # <<>> /\ ~b._processing /\ ~b._ended
                 THEN _restart_debounce(b) ELSE b
  /\ UNCHANGED <<session, frames, returned, force_rule_based, outcomes_built>>

\* process_frame on a non-empty final TranscriptionFrame: lines 96-121.
TranscriptionFrame(utt) ==
  /\ BetweenFrames
  /\ probe.heard < MaxFragments
  /\ LET id == probe.heard + 1
         b == [probe EXCEPT !.heard = id,
                            !.received = IF session.status = "running"
                                         THEN @ \cup {id} ELSE @]
         buffered == [b EXCEPT !._pending_text = Append(@, [id |-> id, utt |-> utt])]
     IN probe' = IF b._ended THEN b
                 ELSE IF b._processing THEN buffered
                 ELSE IF ~b._user_speaking THEN _restart_debounce(buffered)
                 ELSE buffered
  /\ UNCHANGED <<session, frames, returned, force_rule_based, outcomes_built>>

\* _handle_turn up to the call of process_input: lines 149-165.
EnterTurn(b, text) ==
  IF b._ended \/ b._processing
  THEN [b EXCEPT !._debounce_task = "none",
                 !._pending_text = IF b._processing THEN @ \o text ELSE @]
  ELSE [b EXCEPT !._processing = TRUE, !._debounce_task = "call", !.text = text]

\* _debounce_and_process once its sleep is over: lines 134-145.
_debounce_and_process ==
  /\ probe._debounce_task = "sleep"
  /\ probe' = IF probe._user_speaking \/ probe._pending_text = <<>>
              THEN [probe EXCEPT !._debounce_task = "none"]
              ELSE EnterTurn([probe EXCEPT !._pending_text = <<>>], probe._pending_text)
  /\ UNCHANGED <<session, frames, returned, force_rule_based, outcomes_built>>

\* _handle_turn from the return of process_input to its next await or its
\* end: lines 168-200.
AfterProcessInput(b, result) ==
  LET spoken == [b EXCEPT !.pushed = IF result.agent_text # None
                                     THEN Append(@, "TTSSpeakFrame") ELSE @]
  IN IF result.ended
     THEN [spoken EXCEPT !._ended = TRUE, !.reported = TRUE, !._debounce_task = "hangup"]
     ELSE IF spoken._pending_text # <<>>
     THEN EnterTurn([spoken EXCEPT !._pending_text = <<>>, !._processing = FALSE],
                    spoken._pending_text)
     ELSE [spoken EXCEPT !._processing = FALSE, !._debounce_task = "none"]

\* The processor as it hands a text to process_input.
Called(b) == [b EXCEPT !.calls = Append(@, FragmentIds(b.text)), !.text = <<>>]

\* _handle_turn calls process_input, line 165, which returns at once or
\* suspends in its first await.
_handle_turn ==
  /\ probe._debounce_task = "call"
  /\ LET text == JoinedText(probe.text)
     IN \/ /\ CompletedCall("voice", text)
           /\ probe' = AfterProcessInput(Called(probe), Val(returned').result)
        \/ /\ BegunCall("voice", text)
           /\ probe' = [Called(probe) EXCEPT !._debounce_task = "await"]
        \/ /\ RuleBasedCall("voice", text)
           /\ probe' = AfterProcessInput(Called(probe), Val(returned').result)

\* The awaited process_input has returned and _handle_turn resumes.
_handle_turn_resumes ==
  /\ probe._debounce_task = "await"
  /\ frames["voice"].pc = "idle"
  /\ probe' = AfterProcessInput(probe, Val(returned).result)
  /\ UNCHANGED <<session, frames, returned, force_rule_based, outcomes_built>>

\* The sleep of line 184 is over: EndFrame is pushed and the task ends.
_handle_turn_hangs_up ==
  /\ probe._debounce_task = "hangup"
  /\ probe' = [probe EXCEPT !.pushed = Append(@, "EndFrame"),
                            !._processing = FALSE, !._debounce_task = "none"]
  /\ UNCHANGED <<session, frames, returned, force_rule_based, outcomes_built>>

\* The voice pipeline: the frames of the transport, the processor's task, the
\* providers failing over to the rules, and the watchdog.
NextBrain ==
  \/ UserStartedSpeakingFrame
  \/ UserStoppedSpeakingFrame
  \/ \E utt \in FragmentUtterances : TranscriptionFrame(utt)
  \/ _debounce_and_process
  \/ _handle_turn
  \/ ExtractionReturns("voice", None)
  \/ WordingReturns("voice", None)
  \/ _handle_turn_resumes
  \/ _handle_turn_hangs_up
  \/ SilenceElapses
  \/ _silence_watchdog

SpecBrain == InitBrain /\ [][NextBrain]_vars

(* ------------------------------------------------------------------ *)

(* evals/run_evals.py: the scripted scenarios                          *)
(* ------------------------------------------------------------------ *)

\* What the extraction provider may read out of each strong_lead turn.
StrongLeadReplies ==
  << {[DefaultSignals EXCEPT !.confidence = 85]},
     {[DefaultSignals EXCEPT !.pain = Some(8), !.confidence = 85]},
     {[DefaultSignals EXCEPT !.company_size = Some(50), !.confidence = 85]},
     {[DefaultSignals EXCEPT !.authority = Some(TRUE), !.confidence = 85]},
     {[DefaultSignals EXCEPT !.budget = Some(TRUE), !.confidence = 85],
      [DefaultSignals EXCEPT !.budget = Some(TRUE), !.timeline = Some("this quarter"),
                             !.confidence = 85]},
     {[DefaultSignals EXCEPT !.timeline = Some("this quarter"), !.confidence = 85]},
     {[DefaultSignals EXCEPT !.confidence = 85]} >>

\* What the extraction provider may read out of each weak_lead turn.
WeakLeadReplies ==
  << {[DefaultSignals EXCEPT !.intent = "objection", !.confidence = 85,
                             !.objection_type = Some(t)] :
        t \in {"already_have_tool", "not_interested"}},
     {[DefaultSignals EXCEPT !.intent = "objection", !.confidence = 85,
                             !.objection_type = Some(t)] :
        t \in {"busy", "send_email"}},
     {[DefaultSignals EXCEPT !.intent = "end", !.confidence = 85]} >>

\* run_scenario: the scripted turns are sent one after the other, each after
\* the turn before it has returned, until a result says ended.  No watchdog
\* task runs in the harness.  A client that sends the rest of the script to
\* the completed session gets the completed result.
run_scenario(turns, replies) ==
  LET c == "post_input"
      sent == session.state.turn_count
  IN \/ /\ sent < Len(turns)
        /\ ProcessInputBegin(c, turns[sent + 1])
     \/ /\ sent < Len(turns)
        /\ ProcessInputRuleBased(c, turns[sent + 1])
     \/ /\ sent \in 1..Len(turns)
        /\ \E reply \in AnyReply(replies[sent]) : ExtractionReturns(c, reply)
     \/ \E w \in WordingAnswers : WordingReturns(c, w)
     \/ /\ sent < Len(turns)
        /\ ProcessInputCompleted(c, turns[sent + 1])

NextStrongLead == run_scenario(SCENARIOS.strong_lead, StrongLeadReplies)

SpecStrongLead == Init /\ [][NextStrongLead]_vars

NextWeakLead == run_scenario(SCENARIOS.weak_lead, WeakLeadReplies)

SpecWeakLead == Init /\ [][NextWeakLead]_vars

(* ------------------------------------------------------------------ *)
(* SpecPure: the scoring function on every state of a bounded family   *)
(* ------------------------------------------------------------------ *)

Optional(S) == {None} \cup {Some(v) : v \in S}

\* Slot values on both sides of every threshold the scorer compares with.
ProbeFields ==
  {lf \in [pain : Optional({0, 3, 4, 6, 7, 10}),
           company_size : Optional({19, 20}),
           authority : Optional(BOOLEAN),
           budget : Optional(BOOLEAN),
           timeline : Optional({"unknown", "soon"})] : TRUE}

ObjectionOrder ==
  <<"not_interested", "already_have_tool", "too_expensive", "send_email", "busy", "other">>

\* Every list of distinct objection categories, in one order per set.
ProbeObjections ==
  {LET in(t) == t \in S IN SelectSeq(ObjectionOrder, in) : S \in SUBSET Range(ObjectionOrder)}

ProbeStates ==
  {[NewProspectState EXCEPT !.learned_fields = [s \in Slots |-> lf[s]],
                            !.objections = objs] :
     lf \in ProbeFields, objs \in ProbeObjections}

InitPure ==
  /\ session = create_session(NewProspectState, NewDecisionTrace)
  /\ frames = [c \in Callers |-> IdleFrame]
  /\ returned = None
  /\ force_rule_based = FALSE
  /\ outcomes_built = 0
  /\ probe \in {[pc |-> "input", state |-> st, score |-> 0, label |-> ""] :
                  st \in ProbeStates}

\* score_opportunity and label_from_score applied to the probe's state.
PureScore ==
  /\ probe.pc = "input"
  /\ LET score == score_opportunity(probe.state)
     IN probe' = [probe EXCEPT !.pc = "scored", !.score = score,
                               !.label = label_from_score(score)]
  /\ UNCHANGED <<session, frames, returned, force_rule_based, outcomes_built>>

NextPure == PureScore

SpecPure == InitPure /\ [][NextPure]_vars

(* ------------------------------------------------------------------ *)
(* SpecExtract: extract_signals_rule_based on budget and timeline talk  *)
(* ------------------------------------------------------------------ *)

\* What the timeline vocabulary can match in a text that talks about budget:
\* nothing, or one of its tokens; "later" and "next quarter" are also two of
\* the four words the deferred-budget pattern ends in.
TimelineMatches == {None, Some("later"), Some("next quarter"), Some("this year")}

\* Texts by what the end, budget, authority and timeline patterns find in
\* them.
BudgetTexts ==
  { [NoMatch EXCEPT !.end = e, !.budget_have = h, !.budget_no = n, !.budget_defer = d,
                    !.auth_neg = a, !.timeline = t] :
      e \in BOOLEAN, h \in BOOLEAN, n \in BOOLEAN, d \in BOOLEAN, a \in BOOLEAN,
      t \in TimelineMatches }

\* The elif of state.py lines 185-187 is the branch taken.
DeferredBudgetRuleFires(text) ==
  ~text.end /\ ~text.budget_have /\ ~text.budget_no /\ text.budget_defer

InitExtract ==
  /\ session = create_session(NewProspectState, NewDecisionTrace)
  /\ frames = [c \in Callers |-> IdleFrame]
  /\ returned = None
  /\ force_rule_based = TRUE
  /\ outcomes_built = 0
  /\ probe \in {[pc |-> "text", text |-> t, signals |-> DefaultSignals] : t \in BudgetTexts}

\* extract_signals_rule_based applied to the probe's text.
PureExtract ==
  /\ probe.pc = "text"
  /\ probe' = [probe EXCEPT !.pc = "extracted",
                            !.signals = extract_signals_rule_based(probe.text)]
  /\ UNCHANGED <<session, frames, returned, force_rule_based, outcomes_built>>

NextExtract == PureExtract

SpecExtract == InitExtract /\ [][NextExtract]_vars

(* ------------------------------------------------------------------ *)

(* SpecRecommend: _recommended_next_action on pairs of terminal states  *)
(* ------------------------------------------------------------------ *)

\* Learned fields with nothing known, with a strong and a weak value of the
\* slots that carry most of the score, and every authority answer.
RecommendFields ==
  {lf \in [pain : Optional({2, 9}),
           company_size : Optional({200}),
           authority : Optional(BOOLEAN),
           budget : Optional({TRUE}),
           timeline : Optional({"this quarter"})] : TRUE}

\* Terminal states: a call may end in any of them (USER_ENDED, SILENCE_TIMEOUT).
RecommendStates ==
  {[NewProspectState EXCEPT !.learned_fields = [s \in Slots |-> lf[s]],
                            !.objections = objs] :
     lf \in RecommendFields, objs \in {<<>>, <<"not_interested">>}}

InitRecommend ==
  /\ session = create_session(NewProspectState, NewDecisionTrace)
  /\ frames = [c \in Callers |-> IdleFrame]
  /\ returned = None
  /\ force_rule_based = TRUE
  /\ outcomes_built = 0
  /\ probe \in {[pc |-> "pair", a |-> a, b |-> b, outcome_a |-> None, outcome_b |-> None] :
                  a \in RecommendStates, b \in RecommendStates}

\* build_outcome applied to each state of the pair.
PureRecommend ==
  /\ probe.pc = "pair"
  /\ probe' = [probe EXCEPT !.pc = "recommended",
                            !.outcome_a = Some(build_outcome(probe.a, NewDecisionTrace)),
                            !.outcome_b = Some(build_outcome(probe.b, NewDecisionTrace))]
  /\ UNCHANGED <<session, frames, returned, force_rule_based, outcomes_built>>

NextRecommend == PureRecommend

SpecRecommend == InitRecommend /\ [][NextRecommend]_vars

(* ------------------------------------------------------------------ *)

(* SpecBreakdown: score_breakdown on every set of objection categories *)
(* ------------------------------------------------------------------ *)

\* No slot known, and every slot known with a value that earns points.
BreakdownFields ==
  { [s \in Slots |-> None],
    [pain |-> Some(8), company_size |-> Some(50), authority |-> Some(TRUE),
     budget |-> Some(TRUE), timeline |-> Some("soon")] }

BreakdownStates ==
  {[NewProspectState EXCEPT !.learned_fields = lf, !.objections = objs] :
     lf \in BreakdownFields, objs \in ProbeObjections}

InitBreakdown ==
  /\ session = create_session(NewProspectState, NewDecisionTrace)
  /\ frames = [c \in Callers |-> IdleFrame]
  /\ returned = None
  /\ force_rule_based = FALSE
  /\ outcomes_built = 0
  /\ probe \in {[pc |-> "state", state |-> st] : st \in BreakdownStates}

\* score_breakdown applied to the probe's state.
PureBreakdown ==
  /\ probe.pc = "state"
  /\ probe' = [pc |-> "itemized", state |-> probe.state,
               items |-> score_breakdown(probe.state)]
  /\ UNCHANGED <<session, frames, returned, force_rule_based, outcomes_built>>

NextBreakdown == PureBreakdown

SpecBreakdown == InitBreakdown /\ [][NextBreakdown]_vars

(* ------------------------------------------------------------------ *)
(* SpecStages: walks through the stage machine                         *)
(* ------------------------------------------------------------------ *)

\* CallStage and the action types of Action.type.
CallStages == {"INTRO", "DISCOVERY", "QUALIFY", "OBJECTION", "CLOSE", "END"}

ActionTypes == {"ASK_SLOT", "HANDLE_OBJECTION", "CLOSE", "END"}

\* The stages next_stage_from_action gives from stage s in one step.
StageSuccessors(s) ==
  {next_stage_from_action(s, MkAction(type, None, <<>>)) : type \in ActionTypes}

\* The stages reached from the stages of S in at most n steps.
RECURSIVE StagesWithin(_, _)
StagesWithin(S, n) ==
  IF n = 0 THEN S
  ELSE StagesWithin(S \cup UNION {StageSuccessors(s) : s \in S}, n - 1)

\* The stages other than s that some sequence of actions leads to from s.
StagesReachableFrom(s) ==
  UNION {StageSuccessors(t) : t \in StagesWithin({s}, Cardinality(CallStages))}

\* The longest walk SpecStages takes.
MaxStageSteps == 4

InitStages ==
  /\ session = create_session(NewProspectState, NewDecisionTrace)
  /\ frames = [c \in Callers |-> IdleFrame]
  /\ returned = None
  /\ force_rule_based = FALSE
  /\ outcomes_built = 0
  /\ probe \in {[pc |-> "walk", path |-> <<s>>] : s \in CallStages \ {"END"}}

\* state.stage = next_stage_from_action(state.stage, action) for an action of
\* any type; the walk remembers the stages it went through.
StageStep ==
  /\ probe.pc = "walk"
  /\ Len(probe.path) <= MaxStageSteps
  /\ \E type \in ActionTypes :
       probe' = [probe EXCEPT !.path =
                   Append(@, next_stage_from_action(probe.path[Len(probe.path)],
                                                    MkAction(type, None, <<>>)))]
  /\ UNCHANGED <<session, frames, returned, force_rule_based, outcomes_built>>

NextStages == StageStep

SpecStages == InitStages /\ [][NextStages]_vars

(* ------------------------------------------------------------------ *)
(* SpecChat: infra/providers/deepseek_r1.py, DeepSeekR1Client.chat_json *)
(* ------------------------------------------------------------------ *)

\* settings.llm_max_retries
LLM_MAX_RETRIES == 2

\* What one awaited chat.completions.create may come back with: content
\* holding a JSON object, content None or "", content of white space only,
\* content that is not JSON, an API error, the request's timeout.
ChatResponses ==
  {"json_object", "no_content", "blank_content", "malformed_json", "api_error",
   "timeout"}

\* json.loads(content)
ParsedPayload == <<"parsed", "json_object">>

\* chat_json before its first attempt: lines 47-48.
ChatStart ==
  [pc |-> "loop", attempt |-> 0, responses |-> <<>>, last_err |-> None,
   result |-> None, raised |-> None]

\* One pass of the loop body without the count: an empty response is retried
\* with the same attempt number.
AfterAttemptEmptyNotCounted(p, response) ==
  LET seen == [p EXCEPT !.responses = Append(@, response)]
      next_attempt(q) ==
        IF q.attempt + 1 < LLM_MAX_RETRIES + 1
        THEN [q EXCEPT !.attempt = @ + 1]
        ELSE [q EXCEPT !.pc = "raised", !.raised = q.last_err]
  IN IF response = "json_object"
     THEN [seen EXCEPT !.pc = "returned", !.result = Some(ParsedPayload)]
     ELSE IF response \in {"no_content", "blank_content"}
     THEN [seen EXCEPT !.last_err = Some("RuntimeError")]
     ELSE IF response = "malformed_json"
     THEN next_attempt([seen EXCEPT !.last_err = Some("JSONDecodeError")])
     ELSE IF p.attempt >= LLM_MAX_RETRIES
     THEN [seen EXCEPT !.pc = "raised", !.last_err = Some(response),
                       !.raised = Some(response)]
     ELSE next_attempt([seen EXCEPT !.last_err = Some(response)])

\* One pass of the loop body, lines 49-76, for the response the request got,
\* and, when it was the last pass, the raise after the loop, lines 77-79.
AfterAttempt(p, response) ==
  LET seen == [p EXCEPT !.responses = Append(@, response)]
      \* the for statement takes the next attempt or leaves the loop
      next_attempt(q) ==
        IF q.attempt + 1 < LLM_MAX_RETRIES + 1
        THEN [q EXCEPT !.attempt = @ + 1]
        ELSE [q EXCEPT !.pc = "raised", !.raised = q.last_err]
  IN IF response = "json_object"
     THEN [seen EXCEPT !.pc = "returned", !.result = Some(ParsedPayload)]
     ELSE IF response \in {"no_content", "blank_content"}
     THEN next_attempt([seen EXCEPT !.last_err = Some("RuntimeError")])
     ELSE IF response = "malformed_json"
     THEN next_attempt([seen EXCEPT !.last_err = Some("JSONDecodeError")])
     ELSE IF p.attempt >= LLM_MAX_RETRIES
     THEN [seen EXCEPT !.pc = "raised", !.last_err = Some(response),
                       !.raised = Some(response)]
     ELSE next_attempt([seen EXCEPT !.last_err = Some(response)])

InitChat ==
  /\ session = create_session(NewProspectState, NewDecisionTrace)
  /\ frames = [c \in Callers |-> IdleFrame]
  /\ returned = None
  /\ force_rule_based = FALSE
  /\ outcomes_built = 0
  /\ probe = ChatStart

\* The awaited request of the current attempt comes back.
ChatAttempt ==
  /\ probe.pc = "loop"
  /\ probe.attempt \in 0..LLM_MAX_RETRIES
  /\ \E response \in ChatResponses : probe' = AfterAttempt(probe, response)
  /\ UNCHANGED <<session, frames, returned, force_rule_based, outcomes_built>>

NextChat == ChatAttempt

SpecChat == InitChat /\ [][NextChat]_vars

(* ------------------------------------------------------------------ *)
(* SpecDecide: one turn's merge, score and decision on every state of   *)
(* a bounded family                                                     *)
(* ------------------------------------------------------------------ *)

\* Slot values that put the score below 4, between 4 and 6, and at 6 or more.
DecideFields ==
  {lf \in [pain : Optional({3, 8}),
           company_size : Optional({50}),
           authority : Optional(BOOLEAN),
           budget : Optional(BOOLEAN),
           timeline : Optional({"soon"})] : TRUE}

DecideObjectionOrder == <<"not_interested", "already_have_tool", "send_email">>

DecideObjections ==
  {LET in(t) == t \in S IN SelectSeq(DecideObjectionOrder, in) :
     S \in SUBSET Range(DecideObjectionOrder)}

\* States as process_input holds them when it merges: the turn is counted.
DecideStates ==
  {[NewProspectState EXCEPT !.stage = stage, !.turn_count = n,
                            !.learned_fields = [s \in Slots |-> lf[s]],
                            !.objections = objs] :
     stage \in {"INTRO", "QUALIFY"}, n \in {1, TURN_LIMIT - 1, TURN_LIMIT},
     lf \in DecideFields, objs \in DecideObjections}

\* Signals of every intent, with the objection categories busy, one that
\* DecideStates may hold, one it never holds, and none.
DecideSignals ==
  {[DefaultSignals EXCEPT !.intent = i, !.objection_type = o, !.confidence = 70] :
     i \in {"answer", "end", "objection", "off_topic"},
     o \in {None, Some("busy"), Some("not_interested"), Some("too_expensive")}}

InitDecide ==
  /\ session = create_session(NewProspectState, NewDecisionTrace)
  /\ frames = [c \in Callers |-> IdleFrame]
  /\ returned = None
  /\ force_rule_based = FALSE
  /\ outcomes_built = 0
  /\ probe \in {[pc |-> "turn", state |-> st, signals |-> sig] :
                  st \in DecideStates, sig \in DecideSignals}

\* Lines 106-123 of process_input applied to the probe's state and signals.
PureDecide ==
  /\ probe.pc = "turn"
  /\ probe' = [pc |-> "decided", state |-> probe.state, signals |-> probe.signals,
               d |-> MergeAndDecide(probe.state, probe.signals)]
  /\ UNCHANGED <<session, frames, returned, force_rule_based, outcomes_built>>

NextDecide == PureDecide

SpecDecide == InitDecide /\ [][NextDecide]_vars

(* ------------------------------------------------------------------ *)
(* SpecMerge: update_from_signals on every state, signals and floor of  *)
(* a bounded family                                                     *)
(* ------------------------------------------------------------------ *)

MergeStates ==
  {[NewProspectState EXCEPT !.learned_fields = [s \in Slots |-> lf[s]],
                            !.objections = objs] :
     lf \in [pain : Optional({8}), company_size : Optional({50}),
             authority : Optional({FALSE}), budget : Optional({TRUE}),
             timeline : Optional({"soon"})],
     objs \in {<<>>, <<"not_interested">>, <<"send_email">>,
               <<"send_email", "not_interested">>}}

\* Signals whose slot values differ from every value MergeStates holds, with
\* a confidence below, at and above the floor of settings.
MergeSignals ==
  {[intent |-> "answer", pain |-> sl.pain, company_size |-> sl.company_size,
    authority |-> sl.authority, budget |-> sl.budget, timeline |-> sl.timeline,
    objection_type |-> o, confidence |-> conf] :
     sl \in [pain : Optional({2}), company_size : Optional({200}),
             authority : Optional({TRUE}), budget : Optional({FALSE}),
             timeline : Optional({"later"})],
     o \in {None, Some(""), Some("not_interested"), Some("too_expensive")},
     conf \in {20, LLM_MIN_CONFIDENCE, 60}}

\* The floors the method is called with: its default and the setting.
MergeFloors == {0, LLM_MIN_CONFIDENCE}

InitMerge ==
  /\ session = create_session(NewProspectState, NewDecisionTrace)
  /\ frames = [c \in Callers |-> IdleFrame]
  /\ returned = None
  /\ force_rule_based = FALSE
  /\ outcomes_built = 0
  /\ probe \in {[pc |-> "merge", state |-> st, signals |-> sig, floor |-> fl] :
                  st \in MergeStates, sig \in MergeSignals, fl \in MergeFloors}

\* state.update_from_signals(signals, min_confidence=floor) on the probe.
PureMerge ==
  /\ probe.pc = "merge"
  /\ probe' = [pc |-> "merged", state |-> probe.state, signals |-> probe.signals,
               floor |-> probe.floor,
               after |-> update_from_signals(probe.state, probe.signals, probe.floor)]
  /\ UNCHANGED <<session, frames, returned, force_rule_based, outcomes_built>>

NextMerge == PureMerge

SpecMerge == InitMerge /\ [][NextMerge]_vars

(* ------------------------------------------------------------------ *)
(* Properties                                                          *)
(* ------------------------------------------------------------------ *)

TraceTurns == session.trace.turns

\* The callers whose turn has decided its action and awaits the wording.
Deciding == {c \in Callers : frames[c].pc = "wording"}

FallbackChosen(reason_codes) == "FALLBACK_NO_ACTION" \in Range(reason_codes)

\* C1: if no earlier turn ended the call, the turn at which turn_count
\* reaches 10 produces END; the session is completed on or before its 10th
\* turn and its trace never holds more than 10 turns.
C1_TurnLimit ==
  /\ \A i \in 1..Len(TraceTurns) :
       TraceTurns[i].turn_index >= TURN_LIMIT => TraceTurns[i].action = "END"
  /\ (InFlight = {} /\ session.state.turn_count >= TURN_LIMIT)
       => session.status = "completed"
  /\ Len(TraceTurns) <= TURN_LIMIT

\* C2: at most one turn of the session is in flight at a time.
C2_OneTurnInFlight == Cardinality(InFlight) <= 1

\* C3: finalization is idempotent.  The outcome is built and stored exactly
\* once, a completed session keeps its status and stored outcome, and every
\* terminal turn is handed the stored outcome, whoever finalized first.
C3_FinalizeOnce ==
  /\ [](outcomes_built = (IF session.status = "completed" THEN 1 ELSE 0))
  /\ []((session.status = "completed") <=> (session.outcome # None))
  /\ []((returned # None /\ Val(returned).result.ended)
          => /\ session.status = "completed"
             /\ Val(returned).result.outcome = session.outcome)
  /\ [][session.status = "completed"
          => /\ session'.status = "completed"
             /\ session'.outcome = session.outcome]_vars

\* The watchdog finalized the session, and a terminal turn that finished
\* afterwards called end_call and was handed the stored outcome.
C3_Witness ==
  /\ session.status = "completed"
  /\ Val(session.outcome).ended = "SILENCE_TIMEOUT"
  /\ returned # None
  /\ Val(returned).result.ended
  /\ Val(returned).result.agent_text # None

\* C4: once the session is completed its ProspectState and DecisionTrace
\* are never modified again.
C4_FrozenAfterCompletion ==
  [][session.status = "completed"
       => /\ session'.state = session.state
          /\ session'.trace = session.trace]_vars

\* A step taken by caller c: its frame moves, or it is the one that returned.
StepBy(c) ==
  \/ frames'[c] # frames[c]
  \/ returned' # returned /\ returned' # None /\ Val(returned').caller = c

\* C5: process_input called on a completed session is a no-op. It returns
\* status completed, ended and the stored outcome, and changes nothing of
\* the session (state, trace, status, stored outcome).
C5_CompletedIsNoOp ==
  [][\A c \in Callers :
       (frames[c].pc = "idle" /\ session.status = "completed" /\ StepBy(c))
         => /\ session' = session
            /\ frames' = frames
            /\ Val(returned').result =
                 [status |-> "completed", agent_text |-> None,
                  opportunity_score |-> Val(session.outcome).opportunity_score,
                  ended |-> TRUE, outcome |-> session.outcome]]_vars

\* A call on a completed session has returned.
C5_Witness ==
  /\ returned # None
  /\ Val(returned).result.status = "completed"
  /\ Val(returned).result.agent_text = None
  /\ Len(TraceTurns) > 0

\* C6: trace.ended_reason is set once; no later step changes a non-null
\* value.
C6_EndedReasonFrozen ==
  [][session.trace.ended_reason # None
       => session'.trace.ended_reason = session.trace.ended_reason]_vars

\* C7: for every ProspectState the score lies in [0, 10], and the label is
\* Weak iff score < 4, Medium iff 4 <= score < 7, Strong iff score >= 7.
C7_ScoreRangeAndLabel ==
  probe.pc = "scored"
    => /\ probe.score \in 0..20
       /\ (probe.label = "Weak") <=> (probe.score < 8)
       /\ (probe.label = "Medium") <=> (8 <= probe.score /\ probe.score < 14)
       /\ (probe.label = "Strong") <=> (probe.score >= 14)

\* A state whose penalties outweigh its points was scored: the lower clamp.
C7_Witness ==
  /\ probe.pc = "scored"
  /\ probe.state.objections # <<>>
  /\ filled_slots(probe.state) = <<>>
  /\ probe.score = 0
  /\ probe.label = "Weak"

EndsOrHandlesObjection(signals, prior) ==
  /\ signals.intent = "objection"
  /\ Truthy(signals.objection_type)
  /\ \/ Val(signals.objection_type) = "busy"
     \/ /\ Val(signals.objection_type) \notin prior
        /\ Cardinality(prior) < 2

HandledTurns ==
  Cardinality({i \in 1..Len(TraceTurns) : TraceTurns[i].action = "HANDLE_OBJECTION"})

\* The turn raises a category not seen before when two are already recorded.
ThirdObjection(f) ==
  /\ f.signals.intent = "objection"
  /\ Truthy(f.signals.objection_type)
  /\ Val(f.signals.objection_type) \notin f.objections_before
  /\ Cardinality(f.objections_before) >= 2

\* C9 as claimed: at most 2 turns get HANDLE_OBJECTION, and a third distinct
\* objection is not handled but yields OBJECTION_SKIPPED while the engine
\* proceeds to slot-probing or close.
C9_ThirdSkippedThenProbe ==
  /\ HandledTurns <= 2
  /\ \A c \in Deciding :
       ThirdObjection(frames[c])
         => /\ frames[c].action.type \in {"ASK_SLOT", "CLOSE"}
            /\ SkippedCode(Val(frames[c].signals.objection_type))
                 \in Range(frames[c].action.reason_codes)

\* C9 amended: at most 2 turns get HANDLE_OBJECTION, and a third distinct
\* objection is never handled.  When the turn limit, the weak-lead bail-out
\* or a busy objection ends the call the action is END; otherwise its first
\* reason code is OBJECTION_SKIPPED_<category> and the action is ASK_SLOT,
\* CLOSE or the fallback END.
C9_ThirdNeverHandled ==
  /\ HandledTurns <= 2
  /\ \A c \in Deciding :
       ThirdObjection(frames[c])
         => LET a == frames[c].action
                st == session.state
                t == Val(frames[c].signals.objection_type)
                stopped == \/ st.turn_count >= 10
                           \/ /\ \A s \in Slots : st.learned_fields[s] # None
                              /\ st.interest_score < 8
                           \/ t = "busy"
            IN /\ a.type # "HANDLE_OBJECTION"
               /\ IF stopped
                  THEN a.type = "END" /\ SkippedCode(t) \notin Range(a.reason_codes)
                  ELSE /\ a.reason_codes[1] = SkippedCode(t)
                       /\ a.type \in {"ASK_SLOT", "CLOSE", "END"}
                       /\ a.type = "END" => FallbackChosen(a.reason_codes)

\* Two objections were handled, and a third category is skipped with a probe.
C9_Witness ==
  /\ HandledTurns = 2
  /\ \E c \in Deciding :
       /\ ThirdObjection(frames[c])
       /\ frames[c].action.type = "ASK_SLOT"
       /\ frames[c].action.reason_codes[1] \in SkippedCodes

BusyObjection(intent, objection_type) ==
  intent = "objection" /\ objection_type = Some("busy")

\* C10: a turn whose signals are a busy objection always gets END, whatever
\* objections were seen and slots are filled, and the session is completed
\* when that turn is recorded.
C10_BusyAlwaysEnds ==
  /\ \A c \in Deciding :
       BusyObjection(frames[c].signals.intent, frames[c].signals.objection_type)
         => frames[c].action.type = "END"
  /\ \A i \in 1..Len(TraceTurns) :
       BusyObjection(TraceTurns[i].intent, TraceTurns[i].objection_type)
         => /\ TraceTurns[i].action = "END"
            /\ session.status = "completed"

\* A busy turn ended a call that had a handled objection and filled slots.
C10_Witness ==
  /\ HandledTurns >= 1
  /\ filled_slots(session.state) # <<>>
  /\ Len(session.state.objections) >= 2
  /\ \E i \in 1..Len(TraceTurns) :
       /\ BusyObjection(TraceTurns[i].intent, TraceTurns[i].objection_type)
       /\ TraceTurns[i].reasons = <<"CALLBACK_REQUESTED">>

\* The guards of the cascade's rules on a decided probe, in rule order.
EndIntent(p) == p.signals.intent = "end"

AtTurnLimit(p) == p.d.state.turn_count >= 10

AllSlotsFilled(p) == \A s \in Slots : p.d.state.learned_fields[s] # None

WeakLead(p) == AllSlotsFilled(p) /\ p.d.state.interest_score < 8

RaisesObjection(p) == p.signals.intent = "objection" /\ Truthy(p.signals.objection_type)

BusyRaised(p) == RaisesObjection(p) /\ Val(p.signals.objection_type) = "busy"

NewlyHandled(p) ==
  /\ RaisesObjection(p)
  /\ Val(p.signals.objection_type) \notin Range(p.state.objections)
  /\ Len(p.state.objections) < 2

StrongLead(p) == AllSlotsFilled(p) /\ p.d.state.interest_score >= 12

\* C11: CLOSE is returned only when all five slots are filled and the score
\* is at least 6; and it is returned whenever they are, the intent is not
\* end, turn_count < 10 and the turn is neither a busy objection nor a newly
\* handled objection.
C11_CloseIffStrongLead ==
  probe.pc = "decided"
    => /\ probe.d.action.type = "CLOSE" => StrongLead(probe)
       /\ ( /\ StrongLead(probe)
            /\ ~EndIntent(probe)
            /\ ~AtTurnLimit(probe)
            /\ ~BusyRaised(probe)
            /\ ~NewlyHandled(probe) )
          => probe.d.action.type = "CLOSE"

\* A strong lead that raises an objection already on record is closed.
C11_Witness ==
  /\ probe.pc = "decided"
  /\ probe.d.action.type = "CLOSE"
  /\ RaisesObjection(probe)
  /\ probe.d.state.stage = "CLOSE"

\* C12: the rules apply in strict priority order, the first matching one
\* wins: end intent (USER_ENDED), turn limit (TURN_LIMIT_REACHED), weak-lead
\* bail-out, objection handling, CLOSE, ASK_SLOT.
C12_FirstRuleWins ==
  probe.pc = "decided"
    => LET a == probe.d.action
       IN IF EndIntent(probe)
          THEN a.type = "END" /\ a.reason_codes = <<"USER_ENDED">>
          ELSE IF AtTurnLimit(probe)
          THEN a.type = "END" /\ a.reason_codes = <<"TURN_LIMIT_REACHED">>
          ELSE IF WeakLead(probe)
          THEN a.type = "END" /\ a.reason_codes = <<"ALL_SLOTS_FILLED", "SCORE_TOO_LOW">>
          ELSE IF BusyRaised(probe)
          THEN a.type = "END" /\ a.reason_codes = <<"CALLBACK_REQUESTED">>
          ELSE IF NewlyHandled(probe)
          THEN a.type = "HANDLE_OBJECTION"
          ELSE IF StrongLead(probe)
          THEN a.type = "CLOSE"
          ELSE IF ~AllSlotsFilled(probe)
          THEN a.type = "ASK_SLOT"
          ELSE FallbackChosen(a.reason_codes)

\* The guards of four rules hold at once and the earliest one decided.
C12_Witness ==
  /\ probe.pc = "decided"
  /\ EndIntent(probe) /\ AtTurnLimit(probe) /\ WeakLead(probe)
  /\ Truthy(probe.signals.objection_type)
  /\ probe.d.action.reason_codes = <<"USER_ENDED">>

\* C13: the number of filled slots never decreases: no step sets a filled
\* slot back to unset.
C13_FilledStaysFilled ==
  [][\A s \in Slots :
       session.state.learned_fields[s] # None
         => session'.state.learned_fields[s] # None]_vars

\* Two slots are filled, and a later turn whose signals carry neither of
\* them has been merged and recorded.
C13_Witness ==
  /\ Len(filled_slots(session.state)) >= 2
  /\ Len(TraceTurns) >= 2
  /\ TraceTurns[Len(TraceTurns)].intent = "objection"
  /\ TraceTurns[Len(TraceTurns)].score_after < TraceTurns[Len(TraceTurns)].score_before

\* C14: once a slot is filled a turn replaces its value only on a correction
\* or on a confidence at least 0.25 above a previous one below 0.85, and
\* otherwise keeps the stored value.  ExtractedSignals carries no correction
\* mark and ProspectState no slot confidence, so no merge is in the first
\* case: the stored value of a filled slot is the same after every merge.
C14_FilledValueKept ==
  probe.pc = "merged"
    => \A s \in Slots :
         probe.state.learned_fields[s] # None
           => probe.after.learned_fields[s] = probe.state.learned_fields[s]

\* A merge that met the floor carried another value for a filled slot, and
\* the stored value is the one that was there.
C14_Witness ==
  /\ probe.pc = "merged"
  /\ probe.signals.confidence >= probe.floor
  /\ probe.state.learned_fields["company_size"] = Some(50)
  /\ probe.signals.company_size = Some(200)
  /\ probe.after.learned_fields["company_size"] = Some(50)

\* C18: when the signals' confidence is below the floor passed to the merge,
\* all five slots of learned_fields are left as they were, whatever values
\* the signals carry.
C18_BelowFloorNoSlotChange ==
  (probe.pc = "merged" /\ probe.signals.confidence < probe.floor)
    => probe.after.learned_fields = probe.state.learned_fields

\* Signals below the floor carried values for unset slots, also an
\* objection, and the slots are still unset.
C18_Witness ==
  /\ probe.pc = "merged"
  /\ probe.signals.confidence < probe.floor
  /\ probe.state.learned_fields["pain"] = None
  /\ probe.signals.pain # None
  /\ probe.after.learned_fields["pain"] = None
  /\ probe.after.objections # probe.state.objections

\* What ProspectState records of a category's occurrences: its entries in
\* the objections list, the only objection record the state has.
objection_count(state, t) ==
  Cardinality({i \in 1..Len(state.objections) : state.objections[i] = t})

\* C19: every merge of signals that carry an objection category increments
\* the category's occurrence count and appends the category to the ordered
\* list if it is new, whatever the confidence and the slot values.
C19_ObjectionAlwaysCounted ==
  (probe.pc = "merged" /\ Truthy(probe.signals.objection_type))
    => LET t == Val(probe.signals.objection_type)
       IN /\ objection_count(probe.after, t) = objection_count(probe.state, t) + 1
          /\ probe.after.objections =
               IF t \in Range(probe.state.objections) THEN probe.state.objections
               ELSE Append(probe.state.objections, t)

\* The slot of the most recent ASK_SLOT action of the trace, if there is one.
last_asked_slot(trace) ==
  LET asked == {i \in 1..Len(trace.turns) : trace.turns[i].action = "ASK_SLOT"}
  IN IF asked = {} THEN None
     ELSE LET reasons == trace.turns[SetMax(asked)].reasons
          IN Some(CHOOSE s \in Slots : MissingCode(s) = reasons[Len(reasons)])

\* Caller c's turn on utterance text merges the rule-based signals in this
\* step: the whole turn when the providers are switched off, and otherwise
\* the part of it that follows a failed extraction.
RuleBasedMerge(c, text) ==
  \/ ProcessInputRuleBased(c, text)
  \/ /\ frames[c].pc = "extract"
     /\ frames[c].user_text = text
     /\ frames'[c].pc = "wording"
     /\ frames'[c].extracted_source = "rule_based"

\* The intent of the signals of the turn that caller c has just merged.
MergedIntent(frame, trace) ==
  IF frame.pc = "wording" THEN frame.signals.intent
  ELSE trace.turns[Len(trace.turns)].intent

\* The agent asked for company_size, and the answer that followed filled it
\* with 50.
SizeFilledByAlignedAnswer ==
  /\ Len(TraceTurns) >= 2
  /\ TraceTurns[Len(TraceTurns) - 1].action = "ASK_SLOT"
  /\ last_asked_slot([turns |-> SubSeq(TraceTurns, 1, Len(TraceTurns) - 1)])
       = Some("company_size")
  /\ session.state.learned_fields["company_size"] = Some(50)

\* C15: a slot was filled by an aligned answer (company_size = 50); after the
\* turn of a later utterance marked as a correction that asserts 200, the
\* stored value is 200.
C15_CorrectionOverrides ==
  [][\A c \in Callers :
       (RuleBasedMerge(c, "correction_200") /\ SizeFilledByAlignedAnswer)
         => session'.state.learned_fields["company_size"] = Some(200)]_vars

\* The number of slots that the signals populate.
explicit_count(signals) ==
  Cardinality({s \in Slots : SignalSlot(signals, s) # None})

\* C16: with a slot asked for and an utterance that is no correction, the
\* merge records a value for a slot only if the signals name it as answered
\* (ExtractedSignals has no such field), or it is the slot asked for, or the
\* confidence is at least 0.85, or the utterance populated two slots or
\* more; otherwise the slot is left as it was.
C16_AlignmentGating ==
  [][\A c \in Callers : \A text \in Utterances \ Corrections :
       (RuleBasedMerge(c, text) /\ last_asked_slot(session.trace) # None)
         => LET signals == extract_signals_rule_based(Catalog[text])
            IN \A s \in Slots :
                 session'.state.learned_fields[s] # session.state.learned_fields[s]
                   => \/ s = Val(last_asked_slot(session.trace))
                      \/ signals.confidence >= 85
                      \/ explicit_count(signals) >= 2]_vars

\* C17: after the agent has asked for pain, the filler "yeah" (no slot
\* content, at most 3 words) is classified off_topic by the rule-based
\* extractor and fills no slot: learned_fields is the same after the turn.
C17_FillerFillsNothing ==
  [][\A c \in Callers :
       (RuleBasedMerge(c, "yeah") /\ last_asked_slot(session.trace) = Some("pain"))
         => /\ MergedIntent(frames'[c], session'.trace) = "off_topic"
            /\ session'.state.learned_fields = session.state.learned_fields]_vars

\* The filler answered a question for pain, and pain is still unset when
\* the agent words its next question.
C17_Witness ==
  \E c \in Deciding :
    /\ frames[c].user_text = "yeah"
    /\ frames[c].signals.intent = "off_topic"
    /\ last_asked_slot(session.trace) = Some("pain")
    /\ session.state.learned_fields["pain"] = None
    /\ frames[c].action.slot = Some("pain")

LastTurn(trace) == trace.turns[Len(trace.turns)]

\* C20: provider failures never surface.  Whatever the extraction provider
\* does (answers, answers below the confidence floor, raises) and whatever
\* the wording provider does (answers, raises), the turn goes on and returns
\* a normal result with agent text; its trace turn has extracted_source llm
\* exactly when the extraction answered at or above the floor and
\* wording_source llm exactly when the wording answered, and the fallback
\* tags otherwise.
C20_ProviderFailuresAbsorbed ==
  [][\A c \in Callers :
       /\ \A reply \in AnyReply(LLMReplies) :
            ExtractionReturns(c, reply)
              => /\ frames'[c].pc = "wording"
                 /\ frames'[c].extracted_source =
                      IF reply # None /\ Val(reply).confidence >= 35
                      THEN "llm" ELSE "rule_based"
       /\ \A reply \in WordingAnswers :
            WordingReturns(c, reply)
              => /\ returned' # None
                 /\ Val(returned').result.status \in {"running", "completed"}
                 /\ Val(returned').result.agent_text # None
                 /\ Len(session'.trace.turns) = Len(session.trace.turns) + 1
                 /\ LastTurn(session'.trace).extracted_source = frames[c].extracted_source
                 /\ LastTurn(session'.trace).wording_source =
                      IF reply # None THEN "llm" ELSE "template"]_vars

\* One turn fell back on the rule-based extractor and was worded by the
\* provider, the next used the provider's signals and the fixed wording.
C20_Witness ==
  /\ Len(TraceTurns) >= 2
  /\ TraceTurns[1].extracted_source = "rule_based"
  /\ TraceTurns[1].wording_source = "llm"
  /\ TraceTurns[2].extracted_source = "llm"
  /\ TraceTurns[2].wording_source = "template"
  /\ returned # None
  /\ Val(returned).result.agent_text # None

\* C21: the stored score is always the scoring function of the current
\* learned_fields and recorded objection categories, whatever turns came
\* before; a step that changes no slot and adds no new objection category
\* (a repeated objection) leaves the stored score as it was.
C21_ScoreIsFunctionOfState ==
  /\ [](session.state.interest_score = score_opportunity(session.state))
  /\ [][(/\ session'.state.learned_fields = session.state.learned_fields
         /\ Range(session'.state.objections) = Range(session.state.objections))
          => session'.state.interest_score = session.state.interest_score]_vars

\* Slots were filled, an objection lowered the score, and the same objection
\* on the next turn left the score where it was.
C21_Witness ==
  /\ Len(TraceTurns) >= 3
  /\ TraceTurns[2].objection_type = Some("already_have_tool")
  /\ TraceTurns[2].score_after < TraceTurns[2].score_before
  /\ TraceTurns[3].objection_type = Some("already_have_tool")
  /\ TraceTurns[3].score_after = TraceTurns[3].score_before
  /\ session.state.interest_score = TraceTurns[3].score_after
  /\ session.state.interest_score > 0

\* C22: END is absorbing.  Once state.stage is END no step of a turn and no
\* watchdog pass moves the stage to another value.
C22_EndIsAbsorbing ==
  [][session.state.stage = "END" => session'.state.stage = "END"]_vars

AllFive(learned_fields) == \A s \in Slots : learned_fields[s] # None

\* C23: the strong-lead scenario.  With no objection raised, every turn
\* taken before the last slot is filled gets ASK_SLOT and the turn that
\* fills the last slot gets CLOSE, which completes the call; the script
\* fills all five slots by its sixth turn, and the outcome has label Strong,
\* a score of at least 7 and all five slots filled.
C23_StrongLeadCloses ==
  LET c == "post_input"
      n == Len(TraceTurns)
      completed == session.status = "completed"
  IN /\ session.state.objections = <<>>
     /\ frames[c].pc = "wording"
          => frames[c].action.type =
               IF AllFive(session.state.learned_fields) THEN "CLOSE" ELSE "ASK_SLOT"
     /\ \A i \in 1..n :
          TraceTurns[i].action = IF completed /\ i = n THEN "CLOSE" ELSE "ASK_SLOT"
     /\ (session.state.turn_count >= 6 /\ frames[c].pc = "idle") => completed
     /\ completed
          => /\ AllFive(Val(session.outcome).learned_fields)
             /\ Val(session.outcome).opportunity_label = "Strong"
             /\ Val(session.outcome).opportunity_score >= 14
             /\ Val(session.outcome).ended = "ALL_SLOTS_FILLED"

\* An opening turn and then five turns that each supplied one new slot
\* value (pain 8, company_size 50, authority, budget, timeline): asked on,
\* then closed on the sixth.
C23_Witness ==
  /\ session.status = "completed"
  /\ Len(TraceTurns) = 6
  /\ \A i \in 2..6 : TraceTurns[i].score_after > TraceTurns[i].score_before
  /\ \A i \in 1..5 : TraceTurns[i].action = "ASK_SLOT"
  /\ TraceTurns[6].action = "CLOSE"
  /\ session.state.learned_fields =
       [pain |-> Some(8), company_size |-> Some(50), authority |-> Some(TRUE),
        budget |-> Some(TRUE), timeline |-> Some("this quarter")]
  /\ Val(session.outcome).opportunity_label = "Strong"
  /\ Val(session.outcome).opportunity_score = 16

WeakLeadCourse ==
  LET c == "post_input"
      n == Len(TraceTurns)
      completed == session.status = "completed"
  IN /\ \A s \in Slots : session.state.learned_fields[s] = None
     /\ (n >= 2 /\ TraceTurns[1].objection_type = Some("already_have_tool")
                /\ TraceTurns[2].objection_type = Some("busy"))
          => /\ completed
             /\ n = 2
             /\ TraceTurns[1].action = "HANDLE_OBJECTION"
             /\ TraceTurns[2].action = "END"
             /\ session.trace.ended_reason = Some("CALLBACK_REQUESTED")
     /\ (force_rule_based /\ n >= 1)
          => /\ TraceTurns[1].objection_type = Some("not_interested")
             /\ TraceTurns[1].action = "HANDLE_OBJECTION"
             /\ (n >= 2) => /\ TraceTurns[2].objection_type = Some("send_email")
                            /\ TraceTurns[2].action = "HANDLE_OBJECTION"
             /\ completed <=> (n = 3)
             /\ completed => session.trace.ended_reason = Some("USER_ENDED")
     /\ (session.state.turn_count = 3 /\ frames[c].pc = "idle") => completed
     /\ completed
          => /\ session.trace.ended_reason # Some("TURN_LIMIT_REACHED")
             /\ Val(session.outcome).opportunity_label = "Weak"
             /\ Val(session.outcome).opportunity_score \in 0..7

ResultConsistent(result, stored) ==
  /\ result.status \in {"running", "completed"}
  /\ (result.status = "completed") <=> result.ended
  /\ result.ended <=> (result.outcome # None)
  /\ result.ended <=> (stored.status = "completed")

\* C25: every result process_input returns is consistent with itself and
\* with the store at the moment of the return: status completed, ended true
\* and a non-null outcome when the stored status is completed, and running,
\* false and null otherwise.
C25_ResultMatchesStore ==
  [][returned' # returned => ResultConsistent(Val(returned').result, session')]_vars

ObjectionCodes == {ObjectionCode(t) : t \in STRONG_OBJECTIONS \cup MILD_OBJECTIONS \cup {"other"}}

\* The reason codes with which a rule of the cascade announces that it
\* selected an action of the given type.
PrimaryTriggers(type) ==
  CASE type = "END" -> {"USER_ENDED", "TURN_LIMIT_REACHED", "ALL_SLOTS_FILLED",
                        "CALLBACK_REQUESTED", "FALLBACK_NO_ACTION"}
    [] type = "HANDLE_OBJECTION" -> ObjectionCodes
    [] type = "CLOSE" -> {"ALL_SLOTS_FILLED"}
    [] type = "ASK_SLOT" -> {"INTRO_TO_DISCOVERY"} \cup {MissingCode(s) : s \in Slots}

\* C26: every Action decide_next_action returns has a non-empty reason_codes
\* whose first entry names the rule that selected the action's type, so the
\* ended_reason taken from reason_codes[0] of a terminal action is that
\* action's primary trigger.
C26_FirstReasonIsTrigger ==
  probe.pc = "decided"
    => /\ probe.d.action.reason_codes # <<>>
       /\ probe.d.action.reason_codes[1] \in PrimaryTriggers(probe.d.action.type)

\* C27: state and trace advance in lock-step.  Whenever no turn of the
\* session is executing, also after a turn was cancelled mid-way, the trace
\* has turn_count turns and their turn_index values are 1, 2, ..., turn_count
\* in order.
C27_LockStep ==
  InFlight = {}
    => /\ Len(TraceTurns) = session.state.turn_count
       /\ \A i \in 1..Len(TraceTurns) : TraceTurns[i].turn_index = i

RECURSIVE objection_points(_)
objection_points(items) ==
  IF items = <<>> THEN 0
  ELSE (IF Head(items).field = "objection" THEN Head(items).points ELSE 0)
       + objection_points(Tail(items))

\* C28: for every set of recorded objection categories the points of the
\* objection items of score_breakdown sum to minus min(raw penalty, 2.0),
\* also when the items were rescaled and rounded to one decimal.
C28_BreakdownSumsToPenalty ==
  probe.pc = "itemized"
    => objection_points(probe.items)
         = 0 - Min(5 * objection_penalty(probe.state.objections), 20)

NonEndStages == CallStages \ {"END"}

\* C29 as stated: every non-END stage is reachable from every other non-END
\* stage through next_stage_from_action.
C29_AllStagesMutuallyReachable ==
  probe.pc = "walk"
    => \A t \in NonEndStages \ {probe.path[1]} : t \in StagesReachableFrom(probe.path[1])

\* C29, amended: QUALIFY, OBJECTION and CLOSE are reachable from every
\* non-END stage; DISCOVERY is reachable only from INTRO, as the step that
\* follows it; INTRO is reachable from no stage, it is only where a call
\* starts.
C29_StageReachability ==
  probe.pc = "walk"
    => /\ {"QUALIFY", "OBJECTION", "CLOSE"} \subseteq StagesReachableFrom(probe.path[1])
       /\ \A i \in 2..Len(probe.path) :
            /\ probe.path[i] # "INTRO"
            /\ probe.path[i] = "DISCOVERY" => (i = 2 /\ probe.path[1] = "INTRO")
       /\ \A t \in CallStages :
            t \in StagesReachableFrom(probe.path[1])
              <=> \/ t \in {"QUALIFY", "OBJECTION", "CLOSE", "END"}
                  \/ t = "DISCOVERY" /\ probe.path[1] = "INTRO"

\* A walk from INTRO through DISCOVERY, OBJECTION and QUALIFY to CLOSE.
C29_Witness ==
  /\ probe.pc = "walk"
  /\ probe.path = <<"INTRO", "DISCOVERY", "OBJECTION", "QUALIFY", "CLOSE">>

\* C30: every call of chat_json ends after at most llm_max_retries + 1
\* requests, whatever mix of empty responses, malformed JSON and API errors
\* it gets: while it is still looping it has made at most llm_max_retries
\* requests and every pass makes one more; it ends by returning the parsed
\* JSON of a non-empty response or by raising, and never returns without a
\* payload.
C30_ChatJsonBounded ==
  /\ [](probe.pc \in {"loop", "returned", "raised"})
  /\ [](Len(probe.responses) <= LLM_MAX_RETRIES + 1)
  /\ [](probe.pc = "loop" => /\ Len(probe.responses) = probe.attempt
                             /\ probe.attempt <= LLM_MAX_RETRIES)
  /\ [](probe.pc = "returned"
          => /\ probe.result = Some(ParsedPayload)
             /\ probe.responses[Len(probe.responses)] = "json_object"
             /\ probe.raised = None)
  /\ [](probe.pc = "raised" => /\ probe.result = None
                               /\ probe.raised # None
                               /\ "json_object" \notin Range(probe.responses))
  /\ [][Len(probe'.responses) = Len(probe.responses) + 1]_vars

\* An empty response, then malformed JSON, then an API error on the last
\* attempt: the call raised that error after three requests.
C30_Witness ==
  /\ probe.pc = "raised"
  /\ probe.responses = <<"no_content", "malformed_json", "api_error">>
  /\ probe.raised = Some("api_error")

\* A step that completes the running session.
Completes == session.status = "running" /\ session'.status = "completed"

\* C31: every created session is eventually completed.  A step that
\* completes it is either the return of a turn whose action is CLOSE or END,
\* or a watchdog pass, and a watchdog pass completes only a session that is
\* running and has been idle for longer than the silence timeout, with
\* ended_reason SILENCE_TIMEOUT.
C31_EventuallyCompleted ==
  /\ <>(session.status = "completed")
  /\ [][(Completes /\ returned' # returned)
          => /\ Val(returned').result.ended
             /\ LastTurn(session'.trace).action \in {"CLOSE", "END"}]_vars
  /\ [][(Completes /\ returned' = returned)
          => /\ session.silent
             /\ session'.trace.ended_reason = Some("SILENCE_TIMEOUT")
             /\ Val(session'.outcome).ended = "SILENCE_TIMEOUT"]_vars

\* Two turns were processed, then the session stayed idle and the watchdog
\* finalized it.
C31_Witness ==
  /\ session.status = "completed"
  /\ Len(TraceTurns) = 2
  /\ \A i \in 1..2 : TraceTurns[i].action = "ASK_SLOT"
  /\ session.trace.ended_reason = Some("SILENCE_TIMEOUT")
  /\ Val(session.outcome).ended = "SILENCE_TIMEOUT"

(* ------------------------------------------------------------------ *)
(* The BrainProcessor                                                  *)
(* ------------------------------------------------------------------ *)

\* A turn of the voice pipeline is inside process_input.
VoiceTurnInFlight == frames["voice"].pc \in {"extract", "wording"}

\* C32: in the voice pipeline a UserStartedSpeakingFrame cancels only a
\* pending debounce timer, never a turn already handed to process_input: a
\* turn that is inside process_input leaves it only by returning, with its
\* entry appended to the decision trace.
C32_StartedTurnCompletes ==
  [][(VoiceTurnInFlight /\ frames'["voice"].pc = "idle")
       => Len(session'.trace.turns) = Len(session.trace.turns) + 1]_vars

\* The processor has pushed an EndFrame downstream.
EndFramePushed == "EndFrame" \in Range(probe.pushed)

\* C33: in the voice pipeline, once process_input has reported the call
\* ended, the BrainProcessor pushes an EndFrame downstream: its task does not
\* end without having pushed it.  And after the EndFrame it calls
\* process_input no more.
C33_EndFrameFollowsEnded ==
  /\ []((probe.reported /\ probe._debounce_task = "none") => EndFramePushed)
  /\ [][EndFramePushed => probe'.calls = probe.calls]_vars

\* The process_input calls whose text holds the transcription id.
CallsWith(id) == {i \in 1..Len(probe.calls) : id \in probe.calls[i]}

\* C34: no user speech is lost while the call is running: every final
\* transcription received before the call ended, text arriving while a turn
\* is processed or while the user speaks included, is in the text of at most
\* one process_input call, and of exactly one once the processor has ended.
C34_NoSpeechLost ==
  \A id \in probe.received :
    /\ Cardinality(CallsWith(id)) <= 1
    /\ probe._ended => Cardinality(CallsWith(id)) = 1

(* ------------------------------------------------------------------ *)
(* The extractor's deferred-budget rule                                *)
(* ------------------------------------------------------------------ *)

\* C35: whenever the extractor's deferred-budget rule fires (budget talked
\* of with maybe / depends / later / next quarter, and no explicit phrase
\* for or against), the signals it returns carry budget = false and
\* timeline = "uncertain" together.
C35_DeferredBudgetJointInference ==
  (probe.pc = "extracted" /\ DeferredBudgetRuleFires(probe.text))
    => /\ probe.signals.budget = Some(FALSE)
       /\ probe.signals.timeline = Some("uncertain")

(* ------------------------------------------------------------------ *)
(* The recommendation of the outcome                                   *)
(* ------------------------------------------------------------------ *)

\* The two outcomes of the pair agree on the score label, and the two states
\* on the authority flag and on whether not_interested was raised.
AgreeOnThree ==
  /\ Val(probe.outcome_a).opportunity_label = Val(probe.outcome_b).opportunity_label
  /\ probe.a.learned_fields["authority"] = probe.b.learned_fields["authority"]
  /\ ("not_interested" \in Range(probe.a.objections))
       <=> ("not_interested" \in Range(probe.b.objections))

SameRecommendation ==
  Val(probe.outcome_a).recommended_next_action = Val(probe.outcome_b).recommended_next_action

\* C36 as stated: recommended_next_action is determined solely by the score
\* label, the authority flag and whether not_interested is among the
\* objections: two terminal states that agree on these three get the same
\* recommendation.
C36_RecommendationByThree ==
  (probe.pc = "recommended" /\ AgreeOnThree) => SameRecommendation

\* C36, amended: recommended_next_action is determined by whether any
\* qualification slot is filled, the score label, the authority flag and
\* whether not_interested is among the objections.
C36_RecommendationByFour ==
  (/\ probe.pc = "recommended"
   /\ AgreeOnThree
   /\ (filled_slots(probe.a) = <<>>) <=> (filled_slots(probe.b) = <<>>))
    => SameRecommendation

\* Two different states, both with a slot filled, one with budget and size
\* and one without, agree on the three and get the same recommendation.
C36_Witness ==
  /\ probe.pc = "recommended"
  /\ AgreeOnThree
  /\ filled_slots(probe.a) # <<>>
  /\ filled_slots(probe.b) # <<>>
  /\ probe.a.learned_fields["budget"] # probe.b.learned_fields["budget"]
  /\ probe.a.learned_fields["company_size"] # probe.b.learned_fields["company_size"]
  /\ Val(probe.outcome_a).opportunity_label = "Medium"
  /\ SameRecommendation

(* ------------------------------------------------------------------ *)
(* The slot an ASK_SLOT action probes                                  *)
(* ------------------------------------------------------------------ *)

\* C37: every ASK_SLOT action probes a slot that is unfilled: when
\* decide_next_action has returned ASK_SLOT with slot s for the turn in
\* progress, learned_fields[s] is unset in the state it was given, in every
\* stage, INTRO included.
C37_AskSlotProbesUnfilled ==
  \A c \in Callers :
    (frames[c].pc = "wording" /\ frames[c].action.type = "ASK_SLOT")
      => session.state.learned_fields[Val(frames[c].action.slot)] = None

(* ------------------------------------------------------------------ *)
(* The continuity of the trace                                         *)
(* ------------------------------------------------------------------ *)

\* C38: the trace of a session is continuous: the first recorded turn has
\* score_before 0 and stage_before INTRO, and every later one has the
\* score_after and the stage_after of the turn before it as its score_before
\* and stage_before.
C38_TraceContinuous ==
  \A n \in 1..Len(session.trace.turns) :
    LET turn == session.trace.turns[n]
    IN IF n = 1
       THEN turn.score_before = 0 /\ turn.stage_before = "INTRO"
       ELSE /\ turn.score_before = session.trace.turns[n - 1].score_after
            /\ turn.stage_before = session.trace.turns[n - 1].stage_after

(* ------------------------------------------------------------------ *)
(* The stage of a completed session                                    *)
(* ------------------------------------------------------------------ *)

\* C39: whenever a session's status is completed, its state.stage is END or
\* CLOSE, whichever path completed it: a terminal END action, a CLOSE action
\* or the silence timeout.
C39_CompletedStageIsTerminal ==
  session.status = "completed" => session.state.stage \in {"END", "CLOSE"}

(* ------------------------------------------------------------------ *)
(* The decision trace of a returned outcome                            *)
(* ------------------------------------------------------------------ *)

\* C40: whenever process_input returns ended = true, the decision_trace of
\* the outcome it returns holds one entry for every turn processed, the
\* terminal turn included: its length equals turn_count.
C40_OutcomeTraceComplete ==
  (returned # None /\ Val(returned).result.ended)
    => Len(Val(Val(returned).result.outcome).decision_trace) = session.state.turn_count

====
